---- MODULE Spec2Model ----
(***************************************************************************)
(* RetailFort: the order-placement transaction (DatabaseStorage.createOrder *)
(* in server/storage.ts), the POST /api/orders route that calls it and      *)
(* appends the sale ledger entry, and the getOrderWithItems read.           *)
(*                                                                          *)
(* The relational store is modelled as the committed tables (db) plus one   *)
(* private write set per open transaction (tx).  A statement of an open     *)
(* transaction is one step; concurrent requests interleave between the      *)
(* awaits of the handler.  Row locks taken by UPDATE are held until the     *)
(* transaction ends (PostgreSQL, READ COMMITTED).                           *)
(*                                                                          *)
(* The items array of a request body is read by the for..of loop one        *)
(* element at a time; the model draws each element when the loop reads it   *)
(* and ends the array when the loop finds it exhausted.                     *)
(***************************************************************************)
EXTENDS Integers, Sequences, FiniteSets, TLC

\* ------------------------------------------------------------------ bounds
MaxItems == 2         \* longest items array of a request body
InitStock == 2        \* stock of every product in the initial state
MaxOps == 2           \* requests to the endpoints other than POST /api/orders in one run
MsPerDay == 2         \* milliseconds of a day (a day scaled down to its first and last one)
MaxOffline == 3       \* transactions saved to the offline queue in one run

\* ------------------------------------------------------------- vocabulary
NULL == "null"
UserId == "user-1"
OtherUser == "user-2"                \* the owner of rows user-1 must not be shown
Requests == {"r1", "r2"}             \* the concurrent POST /api/orders requests
Products == {"p1", "p2"}             \* product rows of the initial state
Customers == {"c1"}                  \* customer rows of the initial state
MissingProduct == "px"               \* an id no product row has
MissingCustomer == "cx"              \* an id no customer row has
TotalAmount == "120.00"              \* decimal columns travel as text

VARIABLES
    db,         \* committed tables: products, orders, orderItems, stockMovements, transactions
    tx,         \* per request: the write set of its open transaction
    pc,         \* per request: position of the handler
    req,        \* per request: the handler's locals (validatedOrder, items read, order returned)
    http,       \* per request: status of the response, 0 before it is sent
    err,        \* per request: the error caught by the route, "none" if none
    attempted,  \* per request: a write statement was sent to the store
    raced,      \* a stock UPDATE ran while another open transaction referenced the same product
    rd,         \* the reader: a getOrderWithItems call in progress and its last result
    now,        \* the clock of the store, which stamps createdAt (defaultNow)
    adj,        \* the PUT /api/products/:id/stock handler in progress, and the operations done
    out,        \* the last result of a read endpoint
    perm,       \* two createOrder calls on the same items in two orders, and their outcomes
    dash,       \* the getDashboardStats call in progress and its last result
    idb,        \* the browser: the offline_transactions object store and the calls on it
    sale        \* the new-sale page: the products it fetched, its cart, what it submitted

\* The state of the dashboard read and of the client.
rest == <<dash, idb, sale>>

\* The state of the endpoints other than POST /api/orders and GET /api/orders/:id.
others == <<now, adj, out, perm, rest>>

vars == <<db, tx, pc, req, http, err, attempted, raced, rd, now, adj, out, perm,
          dash, idb, sale>>

\* ------------------------------------------------------------ request data
\* Order headers a client may send.  totalAmount is NOT NULL without a
\* default, so insertOrderSchema requires it; a header without it is invalid.
HeaderInputs ==
    { [orderNumber |-> "ORD-1", customerId |-> "c1", paymentStatus |-> "paid",
       paymentMethod |-> "upi", totalAmount |-> TotalAmount],
      [orderNumber |-> "ORD-1", customerId |-> NULL, paymentStatus |-> "paid",
       paymentMethod |-> NULL, totalAmount |-> TotalAmount],
      [orderNumber |-> "ORD-1", customerId |-> NULL, paymentStatus |-> NULL,
       paymentMethod |-> "cash", totalAmount |-> TotalAmount],
      [orderNumber |-> "ORD-1", customerId |-> MissingCustomer, paymentStatus |-> "paid",
       paymentMethod |-> "upi", totalAmount |-> TotalAmount],
      [orderNumber |-> "ORD-1", customerId |-> NULL, paymentStatus |-> "paid",
       paymentMethod |-> "cash"] }

\* Line items a client may send.  The route passes req.body.items to
\* createOrder unvalidated: an item may lack its quantity, carry a negative
\* one, or name a product that does not exist.
Item(p, q) == [productId |-> p, quantity |-> q, unitPrice |-> 50,
               totalPrice |-> q * 50]

ItemInputs ==
    { Item("p1", 1), Item("p1", 2), Item("p2", 1),
      Item(MissingProduct, 1), Item("p2", -1),
      [productId |-> "p1", unitPrice |-> 50, totalPrice |-> 50] }

\* insertOrderSchema.parse: the required columns must be present.
insertOrderSchema(h) == {"orderNumber", "totalAmount"} \subseteq DOMAIN h

\* -------------------------------------------------------------- the store
NoTx == [order |-> {}, items |-> <<>>, movements |-> <<>>, stock |-> <<>>]

NoLocals == [order |-> {}, items |-> <<>>, created |-> {}]

\* No PUT /api/products/:id/stock request in progress or answered, no
\* operation done yet.
NoAdj == [pc |-> "idle", id |-> NULL, quantity |-> 0, ops |-> 0, http |-> 0]

\* No getDashboardStats call in progress, none answered.
NoDash == [pc |-> "idle", userId |-> NULL, dailySales |-> {}, stats |-> {}]

\* No call on the offline queue settled yet.
NoCall == [call |-> "none", settled |-> "none", error |-> "none", value |-> {}]

\* The offline_transactions object store before any call: empty.
NoIdb == [store |-> {}, saved |-> 0, last |-> NoCall]

\* The new-sale page before its products are fetched.
NoSale == [products |-> <<>>, cart |-> <<>>, submitted |-> <<>>]

\* No pair of createOrder calls run yet.
NoPerm == [order |-> {}, items |-> <<>>, permuted |-> <<>>, first |-> {}, second |-> {}]

InTx == {"insertOrder", "insertItem", "updateStock", "insertMovement"}

\* The monetary columns of orders that carry a default of 0.
MoneyColumns == {"paidAmount", "discountAmount", "gstAmount"}

\* The order row as inserted: generated id, column defaults applied; the
\* monetary columns take the values of the header.
OrderRow(r, h) ==
    [id |-> r, orderNumber |-> h.orderNumber, customerId |-> h.customerId,
     userId |-> UserId,
     paymentStatus |-> IF h.paymentStatus = NULL THEN "pending" ELSE h.paymentStatus,
     paymentMethod |-> h.paymentMethod, totalAmount |-> h.totalAmount,
     status |-> IF "status" \in DOMAIN h THEN h.status ELSE "pending"]
    @@ [c \in MoneyColumns |-> IF c \in DOMAIN h THEN h[c] ELSE 0]

\* Variant: db.insert(orders), a statement outside the transaction,
\* committed on its own.
DbInsertOrder(d, t, row) == [db |-> [d EXCEPT !.orders = @ \cup {row}], tx |-> t]

\* tx.insert(orders): the row goes to the write set of the open transaction.
TxInsertOrder(d, t, row) == [db |-> d, tx |-> [t EXCEPT !.order = {row}]]

\* Variant: orders.orderNumber carries a unique constraint.
OrderInsertErrorUnique(h) ==
    IF \E o \in db.orders : o.orderNumber = h.orderNumber
    THEN "orders_order_number_key"
    ELSE IF h.customerId # NULL /\ h.customerId \notin Customers
    THEN "orders_customer_id_fk" ELSE "none"

\* orders.customerId references customers.id; orders.orderNumber is NOT NULL
\* and carries no unique constraint.
OrderInsertError(h) ==
    IF h.customerId # NULL /\ h.customerId \notin Customers
    THEN "orders_customer_id_fk" ELSE "none"

\* order_items.quantity is NOT NULL; order_items.productId references products.id.
OrderItemInsertError(d, item) ==
    IF "quantity" \notin DOMAIN item THEN "not_null"
    ELSE IF item.productId \notin DOMAIN d.products THEN "order_items_product_id_fk"
    ELSE "none"

\* Variant: the row carries a totalPrice computed from quantity and unitPrice.
OrderItemRowPriced(r, i, item) ==
    [id |-> <<r, i>>, orderId |-> r, productId |-> item.productId,
     quantity |-> item.quantity, unitPrice |-> item.unitPrice,
     totalPrice |-> item.quantity * item.unitPrice]

\* {...item, orderId: newOrder.id}, with the generated id.
OrderItemRow(r, i, item) ==
    [id |-> <<r, i>>, orderId |-> r, productId |-> item.productId,
     quantity |-> item.quantity, unitPrice |-> item.unitPrice,
     totalPrice |-> item.totalPrice]

\* Variant: the decrement is skipped when the stock does not cover it.
DecrementStockGuarded(stock, quantity) ==
    IF stock >= quantity THEN stock - quantity ELSE stock

\* sql`${products.stock} - ${item.quantity}`
DecrementStock(stock, quantity) == stock - quantity

\* `-${item.quantity}`: a minus sign put in front of the quantity text.  The
\* result is a numeric literal unless the text already starts with a sign,
\* and then it is the negated number.
MinusPrefixIsNumeric(quantity) == quantity >= 0

MinusPrefix(quantity) == 0 - quantity

\* Variant: the movement carries the quantity without the minus sign.
StockMovementRowUnsigned(r, i, item) ==
    [id |-> <<r, i>>, productId |-> item.productId, userId |-> UserId,
     type |-> "out", quantity |-> item.quantity,
     reason |-> "sale", orderId |-> r]

StockMovementRow(r, i, item) ==
    [id |-> <<r, i>>, productId |-> item.productId, userId |-> UserId,
     type |-> "out", quantity |-> MinusPrefix(item.quantity),
     reason |-> "sale", orderId |-> r]

\* stock_movements.quantity is decimal: a text that is no number is rejected.
MovementInsertError(item) ==
    IF MinusPrefixIsNumeric(item.quantity) THEN "none" ELSE "numeric_syntax"

\* Variant: db.insert(stockMovements), a statement outside the transaction,
\* committed on its own.
DbInsertMovement(d, t, m) ==
    [db |-> [d EXCEPT !.stockMovements = @ \cup {m}], tx |-> t]

\* tx.insert(stockMovements): the row goes to the write set of the open
\* transaction, the committed tables stay as they are.
TxInsertMovement(d, t, m) ==
    [db |-> d, tx |-> [t EXCEPT !.movements = Append(@, m)]]

\* Variant: the UPDATE does not wait for the row lock.
NoRowLock(r, p) == TRUE

\* The row lock of UPDATE products: free unless another open transaction
\* has updated the row and not yet ended.
CanLockRow(r, p) == \A o \in Requests \ {r} : p \notin DOMAIN tx[o].stock

\* Variant: the UPDATE starts from the committed row even after an earlier
\* write of the same transaction (a value read before the loop).
CommittedStock(r, p) == db.products[p].stock

\* The stock the UPDATE statement of r starts from: its own earlier write,
\* else the committed row.
CurrentStock(r, p) ==
    IF p \in DOMAIN tx[r].stock THEN tx[r].stock[p] ELSE db.products[p].stock

SeqToSet(s) == { s[i] : i \in 1..Len(s) }

\* COMMIT: the four kinds of write become part of the committed tables.
Commit(d, t) ==
    [d EXCEPT
       !.orders = @ \cup t.order,
       !.orderItems = @ \cup SeqToSet(t.items),
       !.stockMovements = @ \cup SeqToSet(t.movements),
       !.products = [p \in DOMAIN @ |->
                        IF p \in DOMAIN t.stock
                        THEN [@[p] EXCEPT !.stock = t.stock[p]] ELSE @[p]]]

\* Variant: the order insert survives the rollback.
RollbackKeepsOrder(d, t) == [d EXCEPT !.orders = @ \cup t.order]

\* ROLLBACK: the write set is dropped.
Rollback(d, t) == d

\* Variant: the entry carries the order's payment method as it is.
SaleTransactionRawMethod(order) ==
    [id |-> order.id, orderId |-> order.id, customerId |-> order.customerId,
     userId |-> UserId, type |-> "sale", amount |-> order.totalAmount,
     paymentMethod |-> order.paymentMethod]

\* The ledger entry the route appends for a paid order.
SaleTransaction(order) ==
    [id |-> order.id, orderId |-> order.id, customerId |-> order.customerId,
     userId |-> UserId, type |-> "sale", amount |-> order.totalAmount,
     paymentMethod |-> IF order.paymentMethod = NULL THEN "cash" ELSE order.paymentMethod]

\* Product rows as createProduct may have left them: of either user, with a
\* minStock or without one (the column is nullable).
ProductRows ==
    { [stock |-> InitStock, minStock |-> 1, userId |-> u] : u \in {UserId, OtherUser} }
    \cup { [stock |-> InitStock, userId |-> u] : u \in {UserId, OtherUser} }

\* Variant: the comparison excludes the boundary.
SqlLess(row) == "minStock" \in DOMAIN row /\ row.stock < row.minStock

\* sql`${products.stock} <= ${products.minStock}` in a WHERE clause: a
\* comparison with NULL is not true.
SqlLeq(row) == "minStock" \in DOMAIN row /\ row.stock <= row.minStock

\* select from products where userId = ? and stock <= minStock
getLowStockProducts(d, userId) ==
    { [id |-> p, product |-> d.products[p]] :
         p \in { q \in DOMAIN d.products :
                   d.products[q].userId = userId /\ SqlLeq(d.products[q]) } }

\* parseFloat of a column of a product as the API returns it: a decimal
\* text gives its number, null gives NaN.
parseFloat(row, column) ==
    IF column \in DOMAIN row THEN [nan |-> FALSE, value |-> row[column]]
    ELSE [nan |-> TRUE, value |-> 0]

\* isLowStock of the inventory page; a comparison with NaN is false.
isLowStock(product) ==
    LET stock == parseFloat(product, "stock")
        minStock == parseFloat(product, "minStock")
    IN  ~stock.nan /\ ~minStock.nan /\ stock.value <= minStock.value

\* Math.abs
Abs(n) == IF n < 0 THEN 0 - n ELSE n

\* The body of PUT /api/products/:id/stock as the inventory page sends it.
AdjustInputs == {-1, 1}

\* The movement the manual adjustment records.
AdjustmentRow(n, id, quantity) ==
    [id |-> <<"adj", n>>, productId |-> id, userId |-> UserId,
     type |-> IF quantity > 0 THEN "in" ELSE "out", quantity |-> Abs(quantity),
     reason |-> "adjustment", orderId |-> NULL]

\* The days the ledger rows are stamped in, and the instants of those days:
\* a JavaScript Date holds whole milliseconds, a timestamp column
\* milliseconds and the microseconds beyond them.
Days == {0, 1}
Micros == {0, 500}
Dates == { day * MsPerDay + ms : day \in Days, ms \in 0..(MsPerDay - 1) }
Stamps == { [ms |-> date, us |-> us] : date \in Dates, us \in Micros }

\* Ledger rows as createTransaction may have left them: sales by "upi" and
\* by "cash", a row of another type, a sale of another user.  Amounts are
\* whole rupees.
LedgerKinds ==
    { [type |-> "sale", paymentMethod |-> "upi", amount |-> 100, userId |-> UserId],
      [type |-> "sale", paymentMethod |-> "cash", amount |-> 40, userId |-> UserId],
      [type |-> "expense", paymentMethod |-> "upi", amount |-> 25, userId |-> UserId],
      [type |-> "sale", paymentMethod |-> "upi", amount |-> 100, userId |-> OtherUser] }

\* A row of transactions; createdAt is defaultNow(), the clock of the store
\* at the insert.
LedgerRow(k, createdAt) ==
    [id |-> <<k.type, k.paymentMethod, k.userId>>, orderId |-> NULL,
     customerId |-> NULL, userId |-> k.userId, type |-> k.type, amount |-> k.amount,
     paymentMethod |-> k.paymentMethod, createdAt |-> createdAt]

\* startOfDay.setHours(0, 0, 0, 0)
startOfDay(date) == date - (date % MsPerDay)

\* endOfDay.setHours(23, 59, 59, 999)
endOfDay(date) == startOfDay(date) + (MsPerDay - 1)

\* A Date bound to a statement, as a value of a timestamp column.
Timestamp(date) == [ms |-> date, us |-> 0]

\* <= on the values of a timestamp column.
StampLeq(a, b) == a.ms < b.ms \/ (a.ms = b.ms /\ a.us <= b.us)

\* Variant: CASE WHEN without the test of the type.
IsAnyType(t) == TRUE

\* CASE WHEN type = 'sale'
IsSale(t) == t.type = "sale"

\* SUM(amount) over rows; the caller applies COALESCE(.., 0) to no row.
RECURSIVE AmountSum(_)
AmountSum(rows) ==
    IF rows = {} THEN 0
    ELSE LET row == CHOOSE x \in rows : TRUE
         IN  row.amount + AmountSum(rows \ {row})

\* createdAt >= startOfDay and createdAt <= endOfDay
InWindow(t, date) ==
    /\ StampLeq(Timestamp(startOfDay(date)), t.createdAt)
    /\ StampLeq(t.createdAt, Timestamp(endOfDay(date)))

\* The aggregate select of getDailySales; it always returns one row.
getDailySales(d, userId, date) ==
    LET rows == { t \in d.transactions : t.userId = userId /\ InWindow(t, date) }
        sales == { t \in rows : IsSale(t) }
        upi == { t \in sales : t.paymentMethod = "upi" }
    IN  [total |-> AmountSum(sales), upiTotal |-> AmountSum(upi),
         count |-> Cardinality(sales)]

\* Variant: ordersCount is taken from the total.
DashboardStatsOfTotal(dailySales, lowStockProducts) ==
    [todaySales |-> dailySales.total, ordersCount |-> dailySales.total,
     lowStockCount |-> Cardinality(lowStockProducts),
     upiCollection |-> dailySales.upiTotal]

\* The object getDashboardStats returns, built from its two reads.
DashboardStats(dailySales, lowStockProducts) ==
    [todaySales |-> dailySales.total, ordersCount |-> dailySales.count,
     lowStockCount |-> Cardinality(lowStockProducts),
     upiCollection |-> dailySales.upiTotal]

\* Bodies of PUT /api/products/:id.  insertProductSchema.partial() accepts
\* any subset of the columns, stock among them; the edit form of the
\* inventory page sends the stock it loaded when it was opened.
ProductEdits == { [stock |-> InitStock], [minStock |-> 0] }

\* Bodies of PUT /api/orders/:id, accepted by insertOrderSchema.partial().
OrderEdits ==
    { [paymentStatus |-> "paid"], [totalAmount |-> "1.00"], [status |-> "cancelled"] }

\* .set({...data}): the columns named by the body take its values.
SetColumns(row, data) ==
    [c \in DOMAIN row \cup DOMAIN data |-> IF c \in DOMAIN data THEN data[c] ELSE row[c]]

\* update products set ... where id = ?; no row with that id, no change.
updateProduct(d, id, productData) ==
    IF id \in DOMAIN d.products
    THEN [d EXCEPT !.products[id] = SetColumns(@, productData)]
    ELSE d

\* Variant: an update that marks the order paid appends its sale Transaction.
updateOrderWithLedger(d, id, orderData) ==
    LET updated == { IF o.id = id THEN SetColumns(o, orderData) ELSE o : o \in d.orders }
        paid == { o \in updated : o.id = id /\ "paymentStatus" \in DOMAIN orderData
                                    /\ o.paymentStatus = "paid" }
    IN  [d EXCEPT !.orders = updated,
                  !.transactions = @ \cup { SaleTransaction(o) : o \in paid }]

\* update orders set ... where id = ?
updateOrder(d, id, orderData) ==
    [d EXCEPT !.orders = { IF o.id = id THEN SetColumns(o, orderData) ELSE o : o \in @ }]

\* Bodies of POST /api/transactions: a sale, an expense booked on the order
\* of r1, and one without its amount.
TransactionInputs ==
    { [type |-> "sale", amount |-> "10.00", paymentMethod |-> "cash",
       orderId |-> NULL, customerId |-> NULL],
      [type |-> "expense", amount |-> "10.00", paymentMethod |-> "upi",
       orderId |-> "r1", customerId |-> NULL],
      [type |-> "sale", paymentMethod |-> "cash", orderId |-> NULL, customerId |-> NULL] }

\* insertTransactionSchema.parse: the required columns must be present.
insertTransactionSchema(t) == {"type", "amount", "paymentMethod"} \subseteq DOMAIN t

\* insert into transactions: transactions.orderId references orders.id; the
\* row gets its id and its createdAt from the store.
createTransaction(d, n, transaction, createdAt) ==
    IF transaction.orderId # NULL /\ \A o \in d.orders : o.id # transaction.orderId
    THEN d
    ELSE [d EXCEPT !.transactions = @ \cup
            { [id |-> <<"t", n>>, orderId |-> transaction.orderId,
               customerId |-> transaction.customerId, userId |-> UserId,
               type |-> transaction.type, amount |-> transaction.amount,
               paymentMethod |-> transaction.paymentMethod, createdAt |-> createdAt] }]

\* Variant: the foreign keys on orders.id are declared ON DELETE CASCADE.
deleteOrderCascade(d, id) ==
    [d EXCEPT !.orders = { o \in @ : o.id # id },
              !.orderItems = { i \in @ : i.orderId # id },
              !.stockMovements = { m \in @ : m.orderId # id },
              !.transactions = { t \in @ : t.orderId # id }]

\* delete from orders where id = ?  order_items, stock_movements and
\* transactions reference orders.id without an ON DELETE action: the delete
\* is refused while a row references the order.
deleteOrder(d, id) ==
    IF \/ \E i \in d.orderItems : i.orderId = id
       \/ \E m \in d.stockMovements : m.orderId = id
       \/ \E t \in d.transactions : t.orderId = id
    THEN d
    ELSE [d EXCEPT !.orders = { o \in @ : o.id # id }]

\* Variant: products.id is referenced by no foreign key.
deleteProductUnchecked(d, id) ==
    [d EXCEPT !.products = [p \in DOMAIN @ \ {id} |-> @[p]]]

\* delete from products where id = ?  order_items and stock_movements
\* reference products.id without an ON DELETE action.
deleteProduct(d, id) ==
    IF \/ \E i \in d.orderItems : i.productId = id
       \/ \E m \in d.stockMovements : m.productId = id
    THEN d
    ELSE [d EXCEPT !.products = [p \in DOMAIN @ \ {id} |-> @[p]]]

\* The loop of createOrder run to its end with no other transaction in its
\* way, from item i on: the write set when every statement succeeded, else
\* the error of the first statement that failed.
RECURSIVE ProcessItems(_, _, _, _, _)
ProcessItems(d, r, t, items, i) ==
    IF i > Len(items) THEN [err |-> "none", tx |-> t]
    ELSE LET item == items[i] IN
         IF OrderItemInsertError(d, item) # "none"
         THEN [err |-> OrderItemInsertError(d, item), tx |-> t]
         ELSE LET p == item.productId
                  stock == IF p \in DOMAIN t.stock THEN t.stock[p] ELSE d.products[p].stock
                  updated == [t EXCEPT
                                !.items = Append(@, OrderItemRow(r, i, item)),
                                !.stock = [q \in DOMAIN @ \cup {p} |->
                                             IF q = p
                                             THEN DecrementStock(stock, item.quantity)
                                             ELSE @[q]]]
              IN  IF MovementInsertError(item) # "none"
                  THEN [err |-> MovementInsertError(item), tx |-> updated]
                  ELSE ProcessItems(d, r,
                          TxInsertMovement(d, updated, StockMovementRow(r, i, item)).tx,
                          items, i + 1)

\* createOrder(order, items) as one step: the store it leaves, and the error
\* it rejects with ("none" when it returns the order).
createOrder(d, r, order, items) ==
    IF OrderInsertError(order) # "none"
    THEN [err |-> OrderInsertError(order), db |-> Rollback(d, NoTx)]
    ELSE LET res == ProcessItems(d, r, TxInsertOrder(d, NoTx, OrderRow(r, order)).tx,
                                 items, 1)
         IN  IF res.err = "none"
             THEN [err |-> "none", db |-> Commit(d, res.tx)]
             ELSE [err |-> res.err, db |-> Rollback(d, res.tx)]

\* The arrays of at most n items a request body may carry.
ItemArrays(n) == UNION { [1..k -> ItemInputs] : k \in 0..n }

\* The rearrangements of an array.
Rearrangements(items) ==
    { [i \in 1..Len(items) |-> items[f[i]]] :
        f \in { g \in [1..Len(items) -> 1..Len(items)] :
                  \A i, j \in 1..Len(items) : g[i] = g[j] => i = j } }

\* What a statement issued on db (outside a transaction) reads: the
\* committed tables, never the write set of an open transaction.
ReadView(d, t) == d


\* Variant: the catch does not tell a ZodError from any other error.
StatusAlways500(e) == 500

\* The route's catch: ZodError -> 400, anything else -> 500.
Status(e) == IF e = "zod" THEN 400 ELSE 500

\* ------------------------------------------------------------------- Init
Init ==
    /\ db = [products |-> [p \in Products |->
                              [stock |-> InitStock, minStock |-> 1, userId |-> UserId]],
             orders |-> {}, orderItems |-> {}, stockMovements |-> {},
             transactions |-> {}]
    /\ tx = [r \in Requests |-> NoTx]
    /\ pc = [r \in Requests |-> "idle"]
    /\ req = [r \in Requests |-> NoLocals]
    /\ http = [r \in Requests |-> 0]
    /\ err = [r \in Requests |-> "none"]
    /\ attempted = [r \in Requests |-> FALSE]
    /\ raced = FALSE
    /\ rd = [pc |-> "idle", id |-> NULL, order |-> {}, result |-> {}]
    /\ now = Timestamp(0)
    /\ adj = NoAdj
    /\ out = {}
    /\ dash = NoDash
    /\ idb = NoIdb
    /\ sale = NoSale
    /\ perm = NoPerm

\* The transaction callback threw: the transaction rolls back, createOrder
\* rejects, and the route's catch answers.
Fail(r, e) ==
    /\ db' = Rollback(db, tx[r])
    /\ tx' = [tx EXCEPT ![r] = NoTx]
    /\ req' = [req EXCEPT ![r] = NoLocals]
    /\ pc' = [pc EXCEPT ![r] = "done"]
    /\ err' = [err EXCEPT ![r] = e]
    /\ http' = [http EXCEPT ![r] = Status(e)]

\* ---------------------------------------------------------------- actions
\* app.post("/api/orders"): destructure the body, parse the header, call
\* createOrder, which opens the transaction.
PostOrders(r) ==
    /\ pc[r] = "idle"
    /\ \E h \in HeaderInputs :
         IF insertOrderSchema(h)
         THEN /\ pc' = [pc EXCEPT ![r] = "insertOrder"]
              /\ req' = [req EXCEPT ![r].order = {h}]
              /\ UNCHANGED <<http, err>>
         ELSE /\ pc' = [pc EXCEPT ![r] = "done"]
              /\ err' = [err EXCEPT ![r] = "zod"]
              /\ http' = [http EXCEPT ![r] = Status("zod")]
              /\ UNCHANGED req
    /\ UNCHANGED <<db, tx, attempted, raced, rd, others>>

\* const [newOrder] = await tx.insert(orders).values(order).returning()
InsertOrder(r) ==
    /\ pc[r] = "insertOrder"
    /\ attempted' = [attempted EXCEPT ![r] = TRUE]
    /\ \E h \in req[r].order :
         IF OrderInsertError(h) # "none"
         THEN Fail(r, OrderInsertError(h))
         ELSE LET res == TxInsertOrder(db, tx[r], OrderRow(r, h)) IN
              /\ db' = res.db
              /\ tx' = [tx EXCEPT ![r] = res.tx]
              /\ pc' = [pc EXCEPT ![r] = "insertItem"]
              /\ UNCHANGED <<req, http, err>>
    /\ UNCHANGED <<raced, rd, others>>

\* Variant: the movement insert comes straight after the item insert, ahead
\* of the stock update.
InsertOrderItemThenMovement(r) ==
    /\ pc[r] = "insertItem"
    /\ Len(req[r].items) < MaxItems
    /\ \E item \in ItemInputs :
         IF OrderItemInsertError(db, item) # "none"
         THEN Fail(r, OrderItemInsertError(db, item))
         ELSE /\ tx' = [tx EXCEPT ![r].items =
                           Append(@, OrderItemRow(r, Len(@) + 1, item))]
              /\ req' = [req EXCEPT ![r].items = Append(@, item)]
              /\ pc' = [pc EXCEPT ![r] = "insertMovement"]
              /\ UNCHANGED <<db, http, err>>
    /\ UNCHANGED <<attempted, raced, rd, others>>

\* for (const item of items) { await tx.insert(orderItems).values({...item, orderId})
InsertOrderItem(r) ==
    /\ pc[r] = "insertItem"
    /\ Len(req[r].items) < MaxItems
    /\ \E item \in ItemInputs :
         IF OrderItemInsertError(db, item) # "none"
         THEN Fail(r, OrderItemInsertError(db, item))
         ELSE /\ tx' = [tx EXCEPT ![r].items =
                           Append(@, OrderItemRow(r, Len(@) + 1, item))]
              /\ req' = [req EXCEPT ![r].items = Append(@, item)]
              /\ pc' = [pc EXCEPT ![r] = "updateStock"]
              /\ UNCHANGED <<db, http, err>>
    /\ UNCHANGED <<attempted, raced, rd, others>>

\* The item the loop body is processing.
CurrentItem(r) == req[r].items[Len(req[r].items)]

\* await tx.update(products).set({stock: stock - quantity}).where(id = productId)
UpdateStock(r) ==
    /\ pc[r] = "updateStock"
    /\ LET p == CurrentItem(r).productId IN
         /\ CanLockRow(r, p)
         /\ tx' = [tx EXCEPT ![r].stock =
                      [q \in DOMAIN @ \cup {p} |->
                          IF q = p
                          THEN DecrementStock(CurrentStock(r, p), CurrentItem(r).quantity)
                          ELSE @[q]]]
         /\ raced' = (raced \/ \E o \in Requests \ {r} :
                                  \E i \in 1..Len(tx[o].items) : tx[o].items[i].productId = p)
    /\ pc' = [pc EXCEPT ![r] = "insertMovement"]
    /\ UNCHANGED <<db, req, http, err, attempted, rd, others>>

\* await tx.insert(stockMovements).values({type: "out", quantity: `-${quantity}`, ...}) }
InsertMovement(r) ==
    /\ pc[r] = "insertMovement"
    /\ IF MovementInsertError(CurrentItem(r)) # "none"
       THEN Fail(r, MovementInsertError(CurrentItem(r)))
       ELSE LET res == TxInsertMovement(db, tx[r],
                          StockMovementRow(r, Len(req[r].items), CurrentItem(r))) IN
            /\ db' = res.db
            /\ tx' = [tx EXCEPT ![r] = res.tx]
            /\ pc' = [pc EXCEPT ![r] = "insertItem"]
            /\ UNCHANGED <<req, http, err>>
    /\ UNCHANGED <<attempted, raced, rd, others>>

\* The loop found the array exhausted: return newOrder, the transaction
\* commits, and the route goes on: a paid order gets its ledger entry,
\* any other is answered at once.
CommitOrder(r) ==
    /\ pc[r] = "insertItem"
    /\ db' = Commit(db, tx[r])
    /\ tx' = [tx EXCEPT ![r] = NoTx]
    /\ \E order \in tx[r].order :
         IF order.paymentStatus = "paid"
         THEN /\ pc' = [pc EXCEPT ![r] = "ledger"]
              /\ req' = [req EXCEPT ![r] = [NoLocals EXCEPT !.created = {order}]]
              /\ UNCHANGED http
         ELSE /\ pc' = [pc EXCEPT ![r] = "done"]
              /\ req' = [req EXCEPT ![r] = NoLocals]
              /\ http' = [http EXCEPT ![r] = 200]
    /\ UNCHANGED <<err, attempted, raced, rd, others>>

\* A statement of the open transaction fails for a reason of the store
\* (connection lost, deadlock victim, timeout): the callback throws.
StorageFail(r) ==
    /\ pc[r] \in InTx
    /\ attempted' = [attempted EXCEPT ![r] = TRUE]
    /\ Fail(r, "storage")
    /\ UNCHANGED <<raced, rd, others>>

\* await storage.createTransaction({... type: "sale" ...}); res.json(order).
\* transactions.orderId references orders.id: the insert is refused, and the
\* route's catch answers, when the order is no longer there.
CreateTransaction(r) ==
    /\ pc[r] = "ledger"
    /\ \E order \in req[r].created :
         IF \E o \in db.orders : o.id = order.id
         THEN /\ db' = [db EXCEPT !.transactions = @ \cup {SaleTransaction(order)}]
              /\ http' = [http EXCEPT ![r] = 200]
              /\ UNCHANGED err
         ELSE /\ err' = [err EXCEPT ![r] = "transactions_order_id_fk"]
              /\ http' = [http EXCEPT ![r] = Status("transactions_order_id_fk")]
              /\ UNCHANGED db
    /\ req' = [req EXCEPT ![r] = NoLocals]
    /\ pc' = [pc EXCEPT ![r] = "done"]
    /\ UNCHANGED <<tx, attempted, raced, rd, others>>

\* Variant: a failed ledger append takes the order and its rows back.
LedgerFailUndoesOrder(r) ==
    /\ pc[r] = "ledger"
    /\ db' = [db EXCEPT !.orders = { o \in @ : o.id # r },
                        !.orderItems = { i \in @ : i.orderId # r },
                        !.stockMovements = { m \in @ : m.orderId # r }]
    /\ req' = [req EXCEPT ![r] = NoLocals]
    /\ pc' = [pc EXCEPT ![r] = "done"]
    /\ err' = [err EXCEPT ![r] = "storage"]
    /\ http' = [http EXCEPT ![r] = Status("storage")]
    /\ UNCHANGED <<tx, attempted, raced, rd, others>>

\* createTransaction rejects: the route's catch answers 500; nothing is undone.
LedgerFail(r) ==
    /\ pc[r] = "ledger"
    /\ req' = [req EXCEPT ![r] = NoLocals]
    /\ pc' = [pc EXCEPT ![r] = "done"]
    /\ err' = [err EXCEPT ![r] = "storage"]
    /\ http' = [http EXCEPT ![r] = Status("storage")]
    /\ UNCHANGED <<db, tx, attempted, raced, rd, others>>

\* getOrderWithItems(id), first statement: select the order; no row -> undefined.
ReadOrder ==
    /\ rd.pc = "idle"
    /\ \E id \in Requests :
         LET found == { o \in ReadView(db, tx).orders : o.id = id } IN
         rd' = [pc |-> IF found = {} THEN "idle" ELSE "items",
                id |-> id, order |-> found, result |-> {}]
    /\ UNCHANGED <<db, tx, pc, req, http, err, attempted, raced, others>>

\* getOrderWithItems(id), second statement: the items of the order joined
\* with their products; return {order, items}.
ReadItems ==
    /\ rd.pc = "items"
    /\ LET v == ReadView(db, tx)
           items == { i \in v.orderItems :
                        i.orderId = rd.id /\ i.productId \in DOMAIN v.products } IN
         rd' = [pc |-> "idle", id |-> rd.id, order |-> {},
                result |-> { [order |-> o, items |-> items] : o \in rd.order }]
    /\ UNCHANGED <<db, tx, pc, req, http, err, attempted, raced, others>>

\* app.put("/api/products/:id/stock"), up to the first await:
\* storage.updateProductStock(id, quantity), one UPDATE outside any
\* transaction, which waits for the row lock; no row with that id, no change.
PutProductStock ==
    /\ adj.pc = "idle"
    /\ adj.ops < MaxOps
    /\ \E id \in Products : \E quantity \in AdjustInputs :
         /\ \A r \in Requests : id \notin DOMAIN tx[r].stock
         /\ db' = IF id \in DOMAIN db.products
                  THEN [db EXCEPT !.products[id].stock = @ + quantity]
                  ELSE db
         /\ adj' = [pc |-> "movement", id |-> id, quantity |-> quantity,
                    ops |-> adj.ops + 1, http |-> 0]
    /\ UNCHANGED <<tx, pc, req, http, err, attempted, raced, rd, now, out, perm, rest>>

\* await storage.createStockMovement({...}); res.json(product).  The insert
\* is refused when no product has that id (stock_movements.productId), and
\* the route's catch answers 500 to every error.
CreateStockMovement ==
    /\ adj.pc = "movement"
    /\ IF adj.id \in DOMAIN db.products
       THEN /\ db' = [db EXCEPT !.stockMovements =
                        @ \cup {AdjustmentRow(adj.ops, adj.id, adj.quantity)}]
            /\ adj' = [adj EXCEPT !.pc = "idle", !.http = 200]
       ELSE /\ db' = db
            /\ adj' = [adj EXCEPT !.pc = "idle", !.http = 500]
    /\ UNCHANGED <<tx, pc, req, http, err, attempted, raced, rd, now, out, perm, rest>>

\* Variant: the catch takes the stock update back.
StockMovementFailReverts ==
    /\ adj.pc = "movement"
    /\ db' = [db EXCEPT !.products[adj.id].stock = @ - adj.quantity]
    /\ adj' = [adj EXCEPT !.pc = "idle", !.http = 500]
    /\ UNCHANGED <<tx, pc, req, http, err, attempted, raced, rd, now, out, perm, rest>>

\* createStockMovement rejects for a reason of the store: the catch answers
\* 500; the stock update stays.
StockMovementFail ==
    /\ adj.pc = "movement"
    /\ adj' = [adj EXCEPT !.pc = "idle", !.http = 500]
    /\ UNCHANGED <<db, tx, pc, req, http, err, attempted, raced, rd, now, out, perm, rest>>

\* app.get("/api/products/low-stock") and the inventory page, for either user.
GetLowStockProducts ==
    /\ adj.ops < MaxOps
    /\ \E userId \in {UserId, OtherUser} :
         out' = { [userId |-> userId,
                   products |-> getLowStockProducts(ReadView(db, tx), userId)] }
    /\ adj' = [adj EXCEPT !.ops = @ + 1]
    /\ UNCHANGED <<db, tx, pc, req, http, err, attempted, raced, rd, now, perm, rest>>

\* app.put("/api/products/:id"): parse the body, storage.updateProduct; the
\* UPDATE waits for the row lock.
PutProduct ==
    /\ adj.ops < MaxOps
    /\ \E id \in Products : \E productData \in ProductEdits :
         /\ \A r \in Requests : id \notin DOMAIN tx[r].stock
         /\ db' = updateProduct(db, id, productData)
    /\ adj' = [adj EXCEPT !.ops = @ + 1]
    /\ UNCHANGED <<tx, pc, req, http, err, attempted, raced, rd, now, out, perm, rest>>

\* app.put("/api/orders/:id"): parse the body, storage.updateOrder.
PutOrder ==
    /\ adj.ops < MaxOps
    /\ \E id \in Requests : \E orderData \in OrderEdits :
         db' = updateOrder(db, id, orderData)
    /\ adj' = [adj EXCEPT !.ops = @ + 1]
    /\ UNCHANGED <<tx, pc, req, http, err, attempted, raced, rd, now, out, perm, rest>>

\* app.post("/api/transactions"): parse the body (400 if it fails),
\* storage.createTransaction.
PostTransaction ==
    /\ adj.ops < MaxOps
    /\ \E transaction \in TransactionInputs :
         db' = IF insertTransactionSchema(transaction)
               THEN createTransaction(db, adj.ops + 1, transaction, now)
               ELSE db
    /\ adj' = [adj EXCEPT !.ops = @ + 1]
    /\ UNCHANGED <<tx, pc, req, http, err, attempted, raced, rd, now, out, perm, rest>>

\* storage.deleteOrder(id); no route calls it.
DeleteOrder ==
    /\ adj.ops < MaxOps
    /\ \E id \in Requests : db' = deleteOrder(db, id)
    /\ adj' = [adj EXCEPT !.ops = @ + 1]
    /\ UNCHANGED <<tx, pc, req, http, err, attempted, raced, rd, now, out, perm, rest>>

\* storage.deleteProduct(id); no route calls it.  The DELETE waits while an
\* open transaction holds a lock on the row: the one of its UPDATE, or the
\* one the foreign key check of its item insert took.
DeleteProduct ==
    /\ adj.ops < MaxOps
    /\ \E id \in Products :
         /\ \A r \in Requests :
               /\ id \notin DOMAIN tx[r].stock
               /\ \A i \in 1..Len(tx[r].items) : tx[r].items[i].productId # id
         /\ db' = deleteProduct(db, id)
    /\ adj' = [adj EXCEPT !.ops = @ + 1]
    /\ UNCHANGED <<tx, pc, req, http, err, attempted, raced, rd, now, out, perm, rest>>

\* storage.createOrder(order, items) on the store as it is, run alone.
CreateOrderFirst ==
    /\ perm.first = {}
    /\ \E order \in perm.order :
         perm' = [perm EXCEPT !.first = {createOrder(db, "r1", order, perm.items)}]
    /\ UNCHANGED <<db, tx, pc, req, http, err, attempted, raced, rd, now, adj, out, rest>>

\* storage.createOrder(order, items') on the same store, run alone, for a
\* rearrangement items' of the items.
CreateOrderPermuted ==
    /\ perm.second = {}
    /\ \E order \in perm.order : \E items \in Rearrangements(perm.items) :
         perm' = [perm EXCEPT !.permuted = items,
                              !.second = {createOrder(db, "r2", order, items)}]
    /\ UNCHANGED <<db, tx, pc, req, http, err, attempted, raced, rd, now, adj, out, rest>>

\* storage.getDailySales(userId, date), for either user and any instant.
GetDailySales ==
    /\ \E userId \in {UserId, OtherUser} : \E date \in Dates :
         out' = { [userId |-> userId, date |-> date,
                   sales |-> getDailySales(ReadView(db, tx), userId, date)] }
    /\ UNCHANGED <<db, tx, pc, req, http, err, attempted, raced, rd, now, adj, perm, rest>>

Handler(r) ==
    \/ PostOrders(r)
    \/ InsertOrder(r)
    \/ InsertOrderItem(r)
    \/ UpdateStock(r)
    \/ InsertMovement(r)
    \/ CommitOrder(r)
    \/ StorageFail(r)
    \/ CreateTransaction(r)
    \/ LedgerFail(r)

\* Concurrent POST /api/orders requests.
Next == \E r \in Requests : Handler(r)

Spec == Init /\ [][Next]_vars

\* One request and a concurrent reader calling getOrderWithItems, for the
\* order of that request or for an id no order has.
NextRead == Handler("r1") \/ ReadOrder \/ ReadItems

SpecRead == Init /\ [][NextRead]_vars

\* Two POST /api/orders requests in sequence: the second is sent once the
\* first is answered.
NextSeq == Handler("r1") \/ (pc["r1"] = "done" /\ Handler("r2"))

SpecSeq == Init /\ [][NextSeq]_vars

\* As Init, but p1 is any product row: of either user, with or without a
\* minStock.
InitLow ==
    /\ \E row \in ProductRows :
         db = [products |-> [p \in Products |->
                               IF p = "p1" THEN row
                               ELSE [stock |-> InitStock, minStock |-> 1,
                                     userId |-> UserId]],
               orders |-> {}, orderItems |-> {}, stockMovements |-> {},
               transactions |-> {}]
    /\ tx = [r \in Requests |-> NoTx]
    /\ pc = [r \in Requests |-> "idle"]
    /\ req = [r \in Requests |-> NoLocals]
    /\ http = [r \in Requests |-> 0]
    /\ err = [r \in Requests |-> "none"]
    /\ attempted = [r \in Requests |-> FALSE]
    /\ raced = FALSE
    /\ rd = [pc |-> "idle", id |-> NULL, order |-> {}, result |-> {}]
    /\ now = Timestamp(0)
    /\ adj = NoAdj
    /\ out = {}
    /\ dash = NoDash
    /\ idb = NoIdb
    /\ sale = NoSale
    /\ perm = NoPerm

\* As Init, with a ledger: of each kind of row at most one, stamped at any
\* instant of the days.
InitSales ==
    /\ \E kinds \in SUBSET LedgerKinds : \E createdAt \in [kinds -> Stamps] :
         db = [products |-> [p \in Products |->
                               [stock |-> InitStock, minStock |-> 1, userId |-> UserId]],
               orders |-> {}, orderItems |-> {}, stockMovements |-> {},
               transactions |-> { LedgerRow(k, createdAt[k]) : k \in kinds }]
    /\ tx = [r \in Requests |-> NoTx]
    /\ pc = [r \in Requests |-> "idle"]
    /\ req = [r \in Requests |-> NoLocals]
    /\ http = [r \in Requests |-> 0]
    /\ err = [r \in Requests |-> "none"]
    /\ attempted = [r \in Requests |-> FALSE]
    /\ raced = FALSE
    /\ rd = [pc |-> "idle", id |-> NULL, order |-> {}, result |-> {}]
    /\ now = Timestamp(0)
    /\ adj = NoAdj
    /\ out = {}
    /\ dash = NoDash
    /\ idb = NoIdb
    /\ sale = NoSale
    /\ perm = NoPerm

\* getDailySales applied to a ledger.
NextSales == GetDailySales

SpecSales == InitSales /\ [][NextSales]_vars

\* An order, manual stock adjustments and low-stock reads, interleaved.
NextLow ==
    \/ Handler("r1")
    \/ PutProductStock
    \/ CreateStockMovement
    \/ StockMovementFail
    \/ GetLowStockProducts

SpecLow == InitLow /\ [][NextLow]_vars

\* An order and manual stock adjustments, interleaved.
NextAdjust ==
    \/ Handler("r1")
    \/ PutProductStock
    \/ CreateStockMovement
    \/ StockMovementFail

SpecAdjust == Init /\ [][NextAdjust]_vars

\* An order and edits of orders, interleaved.
NextEdit == Handler("r1") \/ PutOrder

SpecEdit == Init /\ [][NextEdit]_vars

\* getDashboardStats(userId), up to its first await: today = new Date(),
\* a Date of whole milliseconds, and getDailySales(userId, today).
DashDailySales ==
    /\ dash.pc = "idle" /\ dash.stats = {}
    /\ \E userId \in {UserId, OtherUser} :
         dash' = [pc |-> "lowStock", userId |-> userId,
                  dailySales |-> {getDailySales(ReadView(db, tx), userId, now.ms)},
                  stats |-> {}]
    /\ UNCHANGED <<db, tx, pc, req, http, err, attempted, raced, rd, now, adj, out, perm,
                   idb, sale>>

\* getDashboardStats, from its second await on: getLowStockProducts(userId),
\* and the object returned.
DashLowStock ==
    /\ dash.pc = "lowStock"
    /\ \E dailySales \in dash.dailySales :
         dash' = [dash EXCEPT
                    !.pc = "idle", !.dailySales = {},
                    !.stats = {DashboardStats(dailySales,
                                  getLowStockProducts(ReadView(db, tx), dash.userId))}]
    /\ UNCHANGED <<db, tx, pc, req, http, err, attempted, raced, rd, now, adj, out, perm,
                   idb, sale>>

\* ----------------------------------------------------------------------
\* The offline queue of the client (IndexedDB)
\* ----------------------------------------------------------------------

\* The JavaScript types of the properties of an OfflineTransaction.
OfflineTransactionTypes ==
    [id |-> "string", type |-> "string", amount |-> "string",
     paymentMethod |-> "string", timestamp |-> "number", synced |-> "boolean"]

\* The types of value IndexedDB takes as a key: of store.get(id), of an
\* index entry, of IDBKeyRange.only(value).  A boolean is none of them.
ValidKeyTypes == {"number", "date", "string", "binary", "array"}

\* The records an index of the store holds: createIndex(name, keyPath) lists
\* a record under the value at its key path, and leaves out the records
\* where that value is not a valid key.
IndexRecords(store, keyPath) ==
    IF OfflineTransactionTypes[keyPath] \in ValidKeyTypes THEN store ELSE {}

\* IDBKeyRange.only(value) on a value of the key path: the range of the one
\* key, or a DataError thrown when the value is not a valid key.
IDBKeyRangeOnly(keyPath, value) ==
    IF OfflineTransactionTypes[keyPath] \in ValidKeyTypes
    THEN [error |-> "none", only |-> {value}]
    ELSE [error |-> "DataError", only |-> {}]

\* `offline_${Date.now()}_${random}`: the n-th id made.
OfflineId(n) == <<"offline", now.ms, n>>

\* What the callers save: a sale by cash or by UPI.
OfflineInputs ==
    { [type |-> "sale", amount |-> "100.00", paymentMethod |-> m] : m \in {"cash", "upi"} }

\* saveOfflineTransaction(transaction): store.add of the transaction with a
\* new id, the time and synced: false.
SaveOfflineTransaction ==
    /\ idb.saved < MaxOffline
    /\ \E transaction \in OfflineInputs :
         LET offlineTransaction ==
                 transaction @@ [id |-> OfflineId(idb.saved + 1),
                                 timestamp |-> now.ms, synced |-> FALSE]
         IN  idb' = [store |-> idb.store \cup {offlineTransaction},
                     saved |-> idb.saved + 1,
                     last |-> [call |-> "save", settled |-> "resolved",
                               error |-> "none", value |-> {}]]
    /\ UNCHANGED <<db, tx, pc, req, http, err, attempted, raced, rd, now, adj, out, perm,
                   dash, sale>>

\* getOfflineTransactions(): index("synced").getAll(IDBKeyRange.only(false)).
\* The range is built inside the promise's executor, so a throw rejects.
GetOfflineTransactions ==
    /\ LET range == IDBKeyRangeOnly("synced", FALSE) IN
         idb' = [idb EXCEPT !.last =
                    IF range.error # "none"
                    THEN [call |-> "get", settled |-> "rejected",
                          error |-> range.error, value |-> {}]
                    ELSE [call |-> "get", settled |-> "resolved", error |-> "none",
                          value |-> { t \in IndexRecords(idb.store, "synced") :
                                        t.synced \in range.only }]]
    /\ UNCHANGED <<db, tx, pc, req, http, err, attempted, raced, rd, now, adj, out, perm,
                   dash, sale>>

\* markTransactionSynced(transactionId): store.get, and when there is such
\* a record store.put of it with synced = true, in one IndexedDB
\* transaction; resolves when the transaction completes, record or not.
MarkTransactionSynced ==
    /\ \E n \in 0..MaxOffline :
         LET transactionId == OfflineId(n)
             found == { t \in idb.store : t.id = transactionId }
         IN  idb' = [idb EXCEPT
                       !.store = (idb.store \ found)
                                 \cup { [t EXCEPT !.synced = TRUE] : t \in found },
                       !.last = [call |-> "mark", settled |-> "resolved",
                                 error |-> "none", value |-> {transactionId}]]
    /\ UNCHANGED <<db, tx, pc, req, http, err, attempted, raced, rd, now, adj, out, perm,
                   dash, sale>>

\* clearOfflineTransactions(): index("synced").openCursor(IDBKeyRange.only(true))
\* and store.delete(cursor.primaryKey) of every record the cursor visits.
\* The range is built inside the promise's executor, so a throw rejects and
\* no cursor is opened.
ClearOfflineTransactions ==
    /\ LET range == IDBKeyRangeOnly("synced", TRUE)
            visited == { t \in IndexRecords(idb.store, "synced") : t.synced \in range.only }
        IN  idb' = [idb EXCEPT
                      !.store = IF range.error # "none" THEN idb.store
                                ELSE idb.store \ visited,
                      !.last = IF range.error # "none"
                               THEN [call |-> "clear", settled |-> "rejected",
                                     error |-> range.error, value |-> {}]
                               ELSE [call |-> "clear", settled |-> "resolved",
                                     error |-> "none", value |-> {}]]
    /\ UNCHANGED <<db, tx, pc, req, http, err, attempted, raced, rd, now, adj, out, perm,
                   dash, sale>>

\* The calls on the offline queue, in any order.
NextOffline ==
    \/ SaveOfflineTransaction
    \/ GetOfflineTransactions
    \/ MarkTransactionSynced
    \/ ClearOfflineTransactions

SpecOffline == Init /\ [][NextOffline]_vars

\* ----------------------------------------------------------------------
\* The cart of the new-sale page
\* ----------------------------------------------------------------------

\* parseFloat(product.stock) of the stocks the page may have fetched, in
\* thousandths (the column has three decimals): below zero, zero, half a
\* unit, whole units, units and a half.
CartStocks == {-1000, 0, 500, InitStock * 1000, InitStock * 1000 + 500}

\* parseFloat(product.price) of the products, in paise.
CartPrice == [p \in Products |-> IF p = "p1" THEN 5000 ELSE 1050]

\* cart.find / products.find: the entries with the product's id.
CartFind(entries, productId) ==
    { i \in 1..Len(entries) : entries[i].id = productId }

\* Variant: an entry already in the cart grows without the stock test.
addToCartUnchecked(cart, product) ==
    IF CartFind(cart, product.id) # {}
    THEN [i \in 1..Len(cart) |->
            IF cart[i].id = product.id
            THEN [cart[i] EXCEPT !.quantity = cart[i].quantity + 1,
                                 !.totalPrice = (cart[i].quantity + 1) * product.price]
            ELSE cart[i]]
    ELSE IF product.stock < 1000 THEN cart
    ELSE Append(cart, [id |-> product.id, quantity |-> 1,
                       unitPrice |-> product.price, totalPrice |-> product.price])

\* addToCart(product): the cart it sets, or the cart as it is when it
\* returns after the toast.  An entry is listed under its product's id.
addToCart(cart, product) ==
    IF CartFind(cart, product.id) # {}
    THEN LET existingItem == cart[CHOOSE i \in CartFind(cart, product.id) :
                                    \A j \in CartFind(cart, product.id) : i <= j]
             newQuantity == existingItem.quantity + 1
         IN  IF newQuantity * 1000 > product.stock THEN cart
             ELSE [i \in 1..Len(cart) |->
                     IF cart[i].id = product.id
                     THEN [cart[i] EXCEPT !.quantity = newQuantity,
                                          !.totalPrice = newQuantity * product.price]
                     ELSE cart[i]]
    ELSE IF product.stock < 1000 THEN cart
    ELSE Append(cart, [id |-> product.id, quantity |-> 1,
                       unitPrice |-> product.price, totalPrice |-> product.price])

\* updateCartQuantity(productId, quantity): the cart it sets, or the cart
\* as it is when it returns after the toast.
updateCartQuantity(cart, products, productId, quantity) ==
    IF quantity <= 0
    THEN SelectSeq(cart, LAMBDA item : item.id # productId)
    ELSE IF \E i \in CartFind(products, productId) : quantity * 1000 > products[i].stock
    THEN cart
    ELSE [i \in 1..Len(cart) |->
            IF cart[i].id = productId
            THEN [cart[i] EXCEPT !.quantity = quantity,
                                 !.totalPrice = quantity * cart[i].unitPrice]
            ELSE cart[i]]

\* A click on a product of the list: addToCart(product).
AddToCart ==
    /\ \E i \in 1..Len(sale.products) :
         sale' = [sale EXCEPT !.cart = addToCart(sale.cart, sale.products[i])]
    /\ UNCHANGED <<db, tx, pc, req, http, err, attempted, raced, rd, now, adj, out, perm,
                   dash, idb>>

\* A click on the minus or the plus of a cart entry:
\* updateCartQuantity(item.product.id, item.quantity - 1 or + 1).
UpdateCartQuantity ==
    /\ \E i \in 1..Len(sale.cart) : \E step \in {-1, 1} :
         sale' = [sale EXCEPT !.cart =
                    updateCartQuantity(sale.cart, sale.products, sale.cart[i].id,
                                       sale.cart[i].quantity + step)]
    /\ UNCHANGED <<db, tx, pc, req, http, err, attempted, raced, rd, now, adj, out, perm,
                   dash, idb>>

\* onOrderSubmit(data): returns after the toast on an empty cart, else hands
\* {order, items} to the mutation, the items being the cart entries in
\* order; the numbers of an item stand for their decimal text.
OnOrderSubmit ==
    /\ sale' = [sale EXCEPT !.submitted =
                   IF Len(sale.cart) = 0 THEN sale.submitted
                   ELSE [i \in 1..Len(sale.cart) |->
                           [productId |-> sale.cart[i].id,
                            quantity |-> sale.cart[i].quantity,
                            unitPrice |-> sale.cart[i].unitPrice,
                            totalPrice |-> sale.cart[i].totalPrice,
                            gstRate |-> "18"]]]
    /\ UNCHANGED <<db, tx, pc, req, http, err, attempted, raced, rd, now, adj, out, perm,
                   dash, idb>>

\* As Init, with the page mounted and its product list fetched: the two
\* products in either order, each with one of the stocks.
InitCart ==
    /\ db = [products |-> [p \in Products |->
                             [stock |-> InitStock, minStock |-> 1, userId |-> UserId]],
             orders |-> {}, orderItems |-> {}, stockMovements |-> {}, transactions |-> {}]
    /\ tx = [r \in Requests |-> NoTx]
    /\ pc = [r \in Requests |-> "idle"]
    /\ req = [r \in Requests |-> NoLocals]
    /\ http = [r \in Requests |-> 0]
    /\ err = [r \in Requests |-> "none"]
    /\ attempted = [r \in Requests |-> FALSE]
    /\ raced = FALSE
    /\ rd = [pc |-> "idle", id |-> NULL, order |-> {}, result |-> {}]
    /\ now = Timestamp(0)
    /\ adj = NoAdj
    /\ out = {}
    /\ perm = NoPerm
    /\ dash = NoDash
    /\ idb = NoIdb
    /\ \E first \in Products : \E s1 \in CartStocks : \E s2 \in CartStocks :
         LET second == CHOOSE p \in Products : p # first IN
         sale = [NoSale EXCEPT !.products =
                   << [id |-> first, price |-> CartPrice[first], stock |-> s1],
                      [id |-> second, price |-> CartPrice[second], stock |-> s2] >>]

\* The clicks on the new-sale page, in any order.
NextCart ==
    \/ AddToCart
    \/ UpdateCartQuantity
    \/ OnOrderSubmit

SpecCart == InitCart /\ [][NextCart]_vars

\* The instants the rows of the dashboard's day and of the day before or
\* after it are stamped at: the first millisecond of each day.
DashStamps == { Timestamp(day * MsPerDay) : day \in Days }

\* An order of user-1 as POST /api/orders left it, with its createdAt.
DashOrder(paymentStatus, createdAt) ==
    OrderRow("o1", [orderNumber |-> "ORD-1", customerId |-> NULL,
                    paymentStatus |-> paymentStatus, paymentMethod |-> "upi",
                    totalAmount |-> 100])
    @@ [createdAt |-> createdAt]

\* The ledger entry the route appended for an order, stamped as the order.
DashSale(order) ==
    [SaleTransaction(order) EXCEPT !.id = <<"sale", order.id>>]
    @@ [createdAt |-> order.createdAt]

\* What POST /api/orders may have left of one order: nothing, an order
\* that is not paid, a paid order whose ledger append failed, a paid order
\* with its sale Transaction.
DashOrders ==
    { [orders |-> {}, transactions |-> {}] }
    \cup { [orders |-> {DashOrder("pending", c)}, transactions |-> {}] : c \in DashStamps }
    \cup { [orders |-> {DashOrder("paid", c)}, transactions |-> {}] : c \in DashStamps }
    \cup { [orders |-> {DashOrder("paid", c)},
            transactions |-> {DashSale(DashOrder("paid", c))}] : c \in DashStamps }

\* What POST /api/transactions and the other user may have left: rows of
\* any of the kinds, stamped together.
DashPosted ==
    { { LedgerRow(k, c) : k \in kinds } : kinds \in SUBSET LedgerKinds, c \in DashStamps }

\* As Init, at the start of a day, with the orders and the ledger of that
\* day and of the day before or after it.
InitDash ==
    /\ \E o \in DashOrders : \E posted \in DashPosted :
         db = [products |-> [p \in Products |->
                               [stock |-> InitStock, minStock |-> 1, userId |-> UserId]],
               orders |-> o.orders, orderItems |-> {}, stockMovements |-> {},
               transactions |-> o.transactions \cup posted]
    /\ tx = [r \in Requests |-> NoTx]
    /\ pc = [r \in Requests |-> "idle"]
    /\ req = [r \in Requests |-> NoLocals]
    /\ http = [r \in Requests |-> 0]
    /\ err = [r \in Requests |-> "none"]
    /\ attempted = [r \in Requests |-> FALSE]
    /\ raced = FALSE
    /\ rd = [pc |-> "idle", id |-> NULL, order |-> {}, result |-> {}]
    /\ now \in DashStamps
    /\ adj = NoAdj
    /\ out = {}
    /\ perm = NoPerm
    /\ dash = NoDash
    /\ idb = NoIdb
    /\ sale = NoSale

\* One getDashboardStats call beside manual stock adjustments.
NextDash ==
    \/ DashDailySales
    \/ DashLowStock
    \/ PutProductStock
    \/ CreateStockMovement
    \/ StockMovementFail

SpecDash == InitDash /\ [][NextDash]_vars

\* As Init, with a validated order header and an items array to place.
InitPerm ==
    /\ db = [products |-> [p \in Products |->
                              [stock |-> InitStock, minStock |-> 1, userId |-> UserId]],
             orders |-> {}, orderItems |-> {}, stockMovements |-> {},
             transactions |-> {}]
    /\ tx = [r \in Requests |-> NoTx]
    /\ pc = [r \in Requests |-> "idle"]
    /\ req = [r \in Requests |-> NoLocals]
    /\ http = [r \in Requests |-> 0]
    /\ err = [r \in Requests |-> "none"]
    /\ attempted = [r \in Requests |-> FALSE]
    /\ raced = FALSE
    /\ rd = [pc |-> "idle", id |-> NULL, order |-> {}, result |-> {}]
    /\ now = Timestamp(0)
    /\ adj = NoAdj
    /\ out = {}
    /\ dash = NoDash
    /\ idb = NoIdb
    /\ sale = NoSale
    /\ \E order \in { h \in HeaderInputs : insertOrderSchema(h) } :
         \E items \in ItemArrays(MaxItems) :
            perm = [NoPerm EXCEPT !.order = {order}, !.items = items]

\* createOrder on an items array and on a rearrangement of it.
NextPerm == CreateOrderFirst \/ CreateOrderPermuted

SpecPerm == InitPerm /\ [][NextPerm]_vars

\* An order and the writing operations of the other endpoints and of the
\* storage interface, interleaved.
NextShop ==
    \/ Handler("r1")
    \/ PutProductStock
    \/ CreateStockMovement
    \/ StockMovementFail
    \/ PutProduct
    \/ PutOrder
    \/ PostTransaction
    \/ DeleteOrder
    \/ DeleteProduct

SpecShop == Init /\ [][NextShop]_vars

\* Order headers with their monetary fields, in whole paise: a total that
\* is or is not the sum of the items below, the optional amounts given or
\* left out, paid or not; and a header without its total.
MoneyHeaders ==
    { [orderNumber |-> "ORD-1", customerId |-> NULL, paymentStatus |-> s,
       paymentMethod |-> "upi", totalAmount |-> total] :
         s \in {"paid", NULL}, total \in {120, 1} }
    \cup { [orderNumber |-> "ORD-1", customerId |-> NULL, paymentStatus |-> "paid",
            paymentMethod |-> "upi", totalAmount |-> total, paidAmount |-> paid,
            discountAmount |-> 7, gstAmount |-> 3] :
              total \in {120, 1}, paid \in {120, 5} }
    \cup { [orderNumber |-> "ORD-1", customerId |-> NULL, paymentStatus |-> "paid",
            paymentMethod |-> "upi", paidAmount |-> 120] }

\* Line items with their prices: a totalPrice that is quantity x unitPrice,
\* one that is not, and an item of a product that does not exist.
MoneyItems ==
    { [productId |-> "p1", quantity |-> 2, unitPrice |-> 50, totalPrice |-> 100],
      [productId |-> "p1", quantity |-> 2, unitPrice |-> 50, totalPrice |-> 70],
      [productId |-> "p2", quantity |-> 1, unitPrice |-> 20, totalPrice |-> 20],
      [productId |-> MissingProduct, quantity |-> 1, unitPrice |-> 20, totalPrice |-> 20] }

\* app.post("/api/orders") with no other request in its way, as one step:
\* parse the header, createOrder, and for a paid order the ledger append,
\* which may fail on its own.
PostOrdersAlone ==
    /\ pc["r1"] = "idle"
    /\ \E order \in perm.order : \E ledger \in {"none", "storage"} :
         IF ~insertOrderSchema(order)
         THEN /\ err' = [err EXCEPT !["r1"] = "zod"]
              /\ http' = [http EXCEPT !["r1"] = Status("zod")]
              /\ UNCHANGED <<db, attempted>>
         ELSE LET res == createOrder(db, "r1", order, perm.items)
                  paid == { o \in res.db.orders : o.id = "r1" /\ o.paymentStatus = "paid" }
              IN  /\ attempted' = [attempted EXCEPT !["r1"] = TRUE]
                  /\ IF res.err # "none"
                     THEN /\ db' = res.db
                          /\ err' = [err EXCEPT !["r1"] = res.err]
                          /\ http' = [http EXCEPT !["r1"] = Status(res.err)]
                     ELSE IF paid # {} /\ ledger # "none"
                     THEN /\ db' = res.db
                          /\ err' = [err EXCEPT !["r1"] = ledger]
                          /\ http' = [http EXCEPT !["r1"] = Status(ledger)]
                     ELSE /\ db' = [res.db EXCEPT !.transactions =
                                       @ \cup { SaleTransaction(o) : o \in paid }]
                          /\ http' = [http EXCEPT !["r1"] = 200]
                          /\ UNCHANGED err
    /\ pc' = [pc EXCEPT !["r1"] = "done"]
    /\ UNCHANGED <<tx, req, raced, rd, others>>

\* As Init, with the body of one POST /api/orders request: a header with
\* its monetary fields and an array of priced items.
InitMoney ==
    /\ db = [products |-> [p \in Products |->
                              [stock |-> InitStock, minStock |-> 1, userId |-> UserId]],
             orders |-> {}, orderItems |-> {}, stockMovements |-> {},
             transactions |-> {}]
    /\ tx = [r \in Requests |-> NoTx]
    /\ pc = [r \in Requests |-> "idle"]
    /\ req = [r \in Requests |-> NoLocals]
    /\ http = [r \in Requests |-> 0]
    /\ err = [r \in Requests |-> "none"]
    /\ attempted = [r \in Requests |-> FALSE]
    /\ raced = FALSE
    /\ rd = [pc |-> "idle", id |-> NULL, order |-> {}, result |-> {}]
    /\ now = Timestamp(0)
    /\ adj = NoAdj
    /\ out = {}
    /\ dash = NoDash
    /\ idb = NoIdb
    /\ sale = NoSale
    /\ \E order \in MoneyHeaders : \E items \in UNION { [1..k -> MoneyItems] : k \in 0..MaxItems } :
         perm = [NoPerm EXCEPT !.order = {order}, !.items = items]

\* One order request with priced items.
NextMoney == PostOrdersAlone

SpecMoney == InitMoney /\ [][NextMoney]_vars

\* ======================================================================
\* Properties of createOrder and of POST /api/orders
\* ======================================================================

\* The sum of the quantities of the items of a sequence that reference p.
RECURSIVE QuantityOf(_, _)
QuantityOf(items, p) ==
    IF items = <<>> THEN 0
    ELSE (IF Head(items).productId = p THEN Head(items).quantity ELSE 0)
         + QuantityOf(Tail(items), p)

\* The step in which the transaction of r commits.
Committing(r) ==
    pc[r] = "insertItem" /\ pc'[r] \in {"ledger", "done"} /\ err'[r] = "none"

ItemsOf(d, id) == { i \in d.orderItems : i.orderId = id }
MovementsOf(d, id) == { m \in d.stockMovements : m.orderId = id }

\* C1: a successful createOrder with N items adds exactly one Order row, N
\* OrderItem rows referencing it and N StockMovement rows; the i-th movement
\* is of type "out", reason "sale", carries the new order's id, the product
\* of the i-th item and its negated quantity; nothing else is added.
C1_RowsOfOneOrder ==
    [][\A r \in Requests : Committing(r) =>
         LET items == req[r].items
             newOrders == db'.orders \ db.orders
             newItems == db'.orderItems \ db.orderItems
             newMovements == db'.stockMovements \ db.stockMovements
         IN  /\ db.orders \subseteq db'.orders
             /\ db.orderItems \subseteq db'.orderItems
             /\ db.stockMovements \subseteq db'.stockMovements
             /\ Cardinality(newOrders) = 1
             /\ \A o \in newOrders : o.id = r
             /\ Cardinality(newItems) = Len(items)
             /\ \A i \in newItems : i.orderId = r
             /\ Cardinality(newMovements) = Len(items)
             /\ \A i \in 1..Len(items) :
                  \E m \in newMovements :
                     /\ m.id = <<r, i>>
                     /\ m.type = "out" /\ m.reason = "sale" /\ m.orderId = r
                     /\ m.productId = items[i].productId
                     /\ m.quantity = 0 - items[i].quantity
             /\ \A i \in 1..Len(items) :
                  \E row \in newItems :
                     /\ row.id = <<r, i>>
                     /\ row.productId = items[i].productId
                     /\ row.quantity = items[i].quantity
    ]_vars

\* An order of MaxItems items is committed with its items and movements.
C1_Witness ==
    \E o \in db.orders :
        /\ Cardinality(ItemsOf(db, o.id)) = MaxItems
        /\ Cardinality(MovementsOf(db, o.id)) = MaxItems

\* C2: a step of a createOrder call that does not commit, the failing step
\* included, leaves the committed Order, OrderItem and StockMovement rows and
\* every product's stock as they were: what the items processed before the
\* failure wrote is gone with the transaction.
C2_FailureRollsBack ==
    [][\A r \in Requests :
         (pc[r] \in InTx /\ pc'[r] # pc[r] /\ ~Committing(r)) =>
            /\ db' = db
            /\ (pc'[r] = "done" => tx'[r] = NoTx)
    ]_vars

\* A call failed at the movement insert, after the item insert and the
\* stock decrement of that item; the tables hold nothing of it.
C2_Witness ==
    \E r \in Requests :
        /\ pc[r] = "done"
        /\ err[r] = "numeric_syntax"
        /\ ItemsOf(db, r) = {} /\ MovementsOf(db, r) = {}
        /\ \A o \in db.orders : o.id # r
        /\ \A p \in Products : db.products[p].stock = InitStock

\* C3: a successful createOrder lowers the stock of every product by the sum
\* of the quantities of the items that reference it, and leaves the stock of
\* a product no item references as it was.
C3_StockDecrement ==
    [][\A r \in Requests : Committing(r) =>
         \A p \in Products :
            db'.products[p].stock = db.products[p].stock - QuantityOf(req[r].items, p)
    ]_vars

\* One order with two items of p1 is committed and p2 is untouched.
C3_Witness ==
    /\ \E o \in db.orders :
          /\ Cardinality(ItemsOf(db, o.id)) = 2
          /\ \A i \in ItemsOf(db, o.id) : i.productId = "p1"
    /\ Cardinality(db.orders) = 1
    /\ db.products["p2"].stock = InitStock
    /\ db.products["p1"].stock < InitStock - 1

\* The sale movements that match an item: same order, same product, the
\* negated quantity.
SaleMovementsFor(d, item) ==
    { m \in d.stockMovements :
        /\ m.type = "out" /\ m.reason = "sale"
        /\ m.orderId = item.orderId /\ m.productId = item.productId
        /\ m.quantity = 0 - item.quantity }

\* The items a sale movement matches.
ItemsFor(d, m) ==
    { i \in d.orderItems :
        /\ i.orderId = m.orderId /\ i.productId = m.productId
        /\ m.quantity = 0 - i.quantity }

\* C4 as stated: every persisted OrderItem has exactly one matching sale
\* movement.
C4_ExactlyOneMovement ==
    \A item \in db.orderItems : Cardinality(SaleMovementsFor(db, item)) = 1

\* C4 amended: in every reachable state the items of an order and its sale
\* movements correspond one to one: every item has as many matching sale
\* movements as there are items of its order with the same product and
\* quantity (at least one), and every sale movement matches an item.
C4_OneToOne ==
    /\ \A item \in db.orderItems :
          Cardinality(SaleMovementsFor(db, item)) =
             Cardinality({ j \in ItemsOf(db, item.orderId) :
                             j.productId = item.productId /\ j.quantity = item.quantity })
    /\ \A m \in db.stockMovements :
          (m.type = "out" /\ m.reason = "sale") => ItemsFor(db, m) # {}
    /\ \A id \in Requests :
          Cardinality(ItemsOf(db, id)) = Cardinality(MovementsOf(db, id))

\* An order with two lines of different content and one with two lines of
\* the same content are committed.
C4_Witness ==
    /\ \E item \in db.orderItems : Cardinality(SaleMovementsFor(db, item)) = 2
    /\ \E item \in db.orderItems :
          /\ Cardinality(SaleMovementsFor(db, item)) = 1
          /\ Cardinality(ItemsOf(db, item.orderId)) = 2

\* C5 as stated: a request whose header or whose line item fails structural
\* validation (the header is rejected by insertOrderSchema, the item lacks a
\* required column) is answered as a validation error before any write is
\* attempted, and nothing of it is stored.
C5_ValidationBeforeWrite ==
    \A r \in Requests :
        (pc[r] = "done" /\ err[r] \in {"zod", "not_null"}) =>
            /\ http[r] = 400
            /\ ~attempted[r]
            /\ ItemsOf(db, r) = {} /\ MovementsOf(db, r) = {}
            /\ \A o \in db.orders : o.id # r

\* The sum of the quantities of the rows of a set.
RECURSIVE QuantitySum(_)
QuantitySum(rows) ==
    IF rows = {} THEN 0
    ELSE LET row == CHOOSE x \in rows : TRUE
         IN  row.quantity + QuantitySum(rows \ {row})

\* The quantity sold of p according to the rows a reader sees.
Sold(d, p) == QuantitySum({ i \in d.orderItems : i.productId = p })

\* C6: what a statement outside the transaction reads is never an
\* intermediate state of createOrder: an order is visible only once its
\* transaction has ended, an item only with its order, with its movement and
\* with its stock decrement, and getOrderWithItems returns an order with all
\* of its items.
C6_NoIntermediateState ==
    LET v == ReadView(db, tx) IN
    /\ \A o \in v.orders : tx[o.id] = NoTx
    /\ \A i \in v.orderItems :
          /\ \E o \in v.orders : o.id = i.orderId
          /\ SaleMovementsFor(v, i) # {}
    /\ \A m \in v.stockMovements : ItemsFor(v, m) # {}
    /\ \A id \in Requests :
          Cardinality(ItemsOf(v, id)) = Cardinality(MovementsOf(v, id))
    /\ \A p \in Products : v.products[p].stock = InitStock - Sold(v, p)
    /\ \A res \in rd.result :
          /\ res.order \in db.orders
          /\ res.items = ItemsOf(db, res.order.id)
          /\ Cardinality(MovementsOf(db, res.order.id)) = Cardinality(res.items)

\* getOrderWithItems returned an order with two items.
C6_Witness ==
    \E res \in rd.result : Cardinality(res.items) = 2

\* C7: concurrent createOrder calls on the same product lose no update: once
\* no transaction is open, the stock of every product is its initial stock
\* minus the quantities of all items of all committed orders.
C7_NoLostUpdate ==
    (\A r \in Requests : pc[r] \notin InTx) =>
        \A p \in Products : db.products[p].stock = InitStock - Sold(db, p)

\* Both orders committed, both reference p1, and one updated the stock of p1
\* while the transaction of the other was open.
C7_Witness ==
    /\ raced
    /\ \A r \in Requests :
          /\ pc[r] = "done"
          /\ \E i \in ItemsOf(db, r) : i.productId = "p1"
    /\ db.products["p1"].stock = InitStock - Sold(db, "p1")

\* C8: createOrder never refuses an order for lack of stock: the stock
\* update of an item fails only for a reason of the store, and a commit whose
\* items exceed the stock of a product leaves that stock negative, at its
\* old value minus the quantities.
C8_NoStockCheck ==
    [][\A r \in Requests :
         /\ (pc[r] = "updateStock" /\ pc'[r] = "done") => err'[r] = "storage"
         /\ Committing(r) =>
              \A p \in Products :
                 QuantityOf(req[r].items, p) > db.products[p].stock =>
                    /\ db'.products[p].stock < 0
                    /\ db'.products[p].stock =
                          db.products[p].stock - QuantityOf(req[r].items, p)
    ]_vars

\* The stock of p1 is negative after two orders that ran concurrently, each
\* of which the initial stock would have covered.
C8_Witness ==
    /\ raced
    /\ db.products["p1"].stock < 0
    /\ \A r \in Requests :
          /\ QuantitySum({ i \in ItemsOf(db, r) : i.productId = "p1" }) \in 1..InitStock
          /\ http[r] = 200

SalesOf(d, id) == { t \in d.transactions : t.orderId = id /\ t.type = "sale" }

\* C9 as stated: once the request is answered, a sale Transaction of the
\* order exists if and only if the order committed with paymentStatus
\* "paid", it carries the order's customerId, totalAmount and payment
\* method, and no Transaction exists without its order.
C9_LedgerIffPaid ==
    /\ \A t \in db.transactions : \E o \in db.orders : o.id = t.orderId
    /\ \A r \in Requests : pc[r] = "done" =>
          LET paid == { o \in db.orders : o.id = r /\ o.paymentStatus = "paid" } IN
          /\ (SalesOf(db, r) # {}) <=> (paid # {})
          /\ \A t \in SalesOf(db, r) : \A o \in paid :
                /\ t.customerId = o.customerId
                /\ t.amount = o.totalAmount
                /\ t.paymentMethod = o.paymentMethod

\* C9 amended: a sale Transaction exists only for a committed order with
\* paymentStatus "paid", at most one per order; it carries the order's id,
\* customerId and totalAmount, and the order's payment method or "cash" when
\* the order has none; every paid order whose request was answered 200 has
\* its Transaction.
C9_LedgerOnlyIfPaid ==
    /\ \A t \in db.transactions :
          /\ t.type = "sale"
          /\ \E o \in db.orders :
                /\ o.id = t.orderId /\ o.paymentStatus = "paid"
                /\ t.customerId = o.customerId
                /\ t.amount = o.totalAmount
                /\ t.paymentMethod =
                      (IF o.paymentMethod = NULL THEN "cash" ELSE o.paymentMethod)
    /\ \A r \in Requests :
          /\ Cardinality(SalesOf(db, r)) <= 1
          /\ (pc[r] = "done" /\ http[r] = 200
                /\ \E o \in db.orders : o.id = r /\ o.paymentStatus = "paid")
             => SalesOf(db, r) # {}

\* A paid order without payment method has its "cash" entry, and an order
\* that is not paid was answered 200 and has none.
C9_Witness ==
    /\ \E t \in db.transactions : \E o \in db.orders :
          o.id = t.orderId /\ o.paymentMethod = NULL /\ t.paymentMethod = "cash"
    /\ \E o \in db.orders :
          o.paymentStatus = "pending" /\ http[o.id] = 200 /\ SalesOf(db, o.id) = {}

\* C10: the ledger append is outside the atomic unit: while it is pending
\* the paid order is committed with all its rows and has no sale
\* Transaction, and its failure changes nothing in the store.
C10_LedgerOutsideUnit ==
    [][\A r \in Requests : pc[r] = "ledger" =>
         /\ \E o \in db.orders : o.id = r /\ o.paymentStatus = "paid"
         /\ SalesOf(db, r) = {}
         /\ tx[r] = NoTx
         /\ (pc'[r] = "done" /\ err'[r] # "none") =>
               /\ db' = db
               /\ \E o \in db'.orders : o.id = r /\ o.paymentStatus = "paid"
    ]_vars

\* The request was answered 500, and the paid order is committed with an
\* item, its movement and its stock decrement, without a sale Transaction.
C10_Witness ==
    \E r \in Requests :
        /\ pc[r] = "done" /\ http[r] = 500
        /\ \E o \in db.orders : o.id = r /\ o.paymentStatus = "paid"
        /\ ItemsOf(db, r) # {}
        /\ Cardinality(MovementsOf(db, r)) = Cardinality(ItemsOf(db, r))
        /\ \E p \in Products : db.products[p].stock < InitStock
        /\ SalesOf(db, r) = {}

\* The content of a row, its identity and its order's identity aside.
ItemContent(i) == [productId |-> i.productId, quantity |-> i.quantity,
                   unitPrice |-> i.unitPrice, totalPrice |-> i.totalPrice]

\* C11: order placement is not idempotent.  The order insert of a request
\* is never refused because an order with the same orderNumber is committed;
\* the commit of such a request leaves every earlier order with its items and
\* movements as they were, adds one more Order row with an id of its own and
\* its own OrderItem and StockMovement rows, and lowers the stock of every
\* referenced product once more; and the ledger append of a paid one adds one
\* more sale Transaction.
C11_NotIdempotent ==
    [][\A r \in Requests :
         LET dup == { o \in db.orders : \E h \in req[r].order : o.orderNumber = h.orderNumber }
         IN
         /\ (pc[r] = "insertOrder" /\ pc'[r] = "done" /\ dup # {}) =>
               err'[r] \in {"orders_customer_id_fk", "storage"}
         /\ (Committing(r) /\ \E o \in db.orders : \E n \in tx[r].order :
                                  o.orderNumber = n.orderNumber) =>
               /\ \A o \in db.orders :
                     /\ o \in db'.orders /\ o.id # r
                     /\ ItemsOf(db', o.id) = ItemsOf(db, o.id)
                     /\ MovementsOf(db', o.id) = MovementsOf(db, o.id)
               /\ Cardinality(db'.orders) = Cardinality(db.orders) + 1
               /\ Cardinality(ItemsOf(db', r)) = Len(req[r].items)
               /\ Cardinality(MovementsOf(db', r)) = Len(req[r].items)
               /\ ItemsOf(db', r) \cap db.orderItems = {}
               /\ MovementsOf(db', r) \cap db.stockMovements = {}
               /\ \A p \in Products :
                     db'.products[p].stock =
                        db.products[p].stock - QuantityOf(req[r].items, p)
         /\ (pc[r] = "ledger" /\ pc'[r] = "done" /\ err'[r] = "none") =>
               /\ db.transactions \subseteq db'.transactions
               /\ Cardinality(db'.transactions) = Cardinality(db.transactions) + 1
               /\ Cardinality(SalesOf(db', r)) = 1
    ]_vars

\* The same paid payload (same header, the same two items) was sent twice in
\* sequence and answered 200 twice: two orders, two sets of items and of
\* movements, two sale Transactions, and the stock of p1 lowered twice.
C11_Witness ==
    /\ http["r1"] = 200 /\ http["r2"] = 200
    /\ \E a \in db.orders : \E b \in db.orders :
          /\ a.id = "r1" /\ b.id = "r2"
          /\ [a EXCEPT !.id = "r2"] = b
          /\ a.paymentStatus = "paid"
    /\ Cardinality(ItemsOf(db, "r1")) = 2
    /\ \A i \in 1..2 : \E a \in ItemsOf(db, "r1") : \E b \in ItemsOf(db, "r2") :
          /\ a.id = <<"r1", i>> /\ b.id = <<"r2", i>>
          /\ ItemContent(a) = ItemContent(b)
          /\ a.productId = "p1"
    /\ Cardinality(MovementsOf(db, "r1")) = 2 /\ Cardinality(MovementsOf(db, "r2")) = 2
    /\ Cardinality(db.transactions) = 2
    /\ db.products["p1"].stock = InitStock - 2 * QuantitySum(ItemsOf(db, "r1"))

C13_LowStock ==
    [][(adj'.ops # adj.ops /\ adj'.pc = adj.pc) => \A res \in out' :
         LET mine == { p \in DOMAIN db.products : db.products[p].userId = res.userId }
             listed == { row.id : row \in res.products }
         IN  /\ listed \subseteq mine
             /\ \A row \in res.products : row.product = db.products[row.id]
             /\ \A p \in mine :
                   /\ (p \in listed) <=>
                         ("minStock" \in DOMAIN db.products[p]
                            /\ db.products[p].stock <= db.products[p].minStock)
                   /\ (p \in listed) <=> isLowStock(db.products[p])
    ]_vars

\* After an order and a manual adjustment, the read lists p1, whose stock
\* equals its minStock, and not p2 of the same user, whose stock is above it.
C13_Witness ==
    /\ db.orders # {}
    /\ \E m \in db.stockMovements : m.reason = "adjustment"
    /\ \E res \in out :
          /\ res.userId = UserId
          /\ { row.id : row \in res.products } = {"p1"}
          /\ \A row \in res.products : row.product.stock = row.product.minStock
    /\ "minStock" \in DOMAIN db.products["p1"]
    /\ db.products["p1"].stock = db.products["p1"].minStock
    /\ db.products["p2"].userId = UserId
    /\ db.products["p2"].stock > db.products["p2"].minStock

\* ======================================================================
\* Properties of getDailySales
\* ======================================================================

\* The day an instant lies in, and the first and the last millisecond of a
\* day (00:00:00.000 and 23:59:59.999) as values of a timestamp column.
DayOf(date) == date \div MsPerDay
Midnight(day) == [ms |-> day * MsPerDay, us |-> 0]
LastMs(day) == [ms |-> (day + 1) * MsPerDay - 1, us |-> 0]

\* The sale rows of a user stamped from 00:00:00.000 to 23:59:59.999 of the
\* day of a date.
SalesInWindow(d, userId, date) ==
    { t \in d.transactions :
        /\ t.userId = userId /\ t.type = "sale"
        /\ StampLeq(Midnight(DayOf(date)), t.createdAt)
        /\ StampLeq(t.createdAt, LastMs(DayOf(date))) }

\* C14: getDailySales(U, date) returns as total the sum of the amounts of
\* the sale Transactions of U stamped in the day window of date, as upiTotal
\* the sum over those paid by "upi", and as count their number; rows of
\* another type, of another user or outside the window add nothing, and
\* with no such row all three are 0.
C14_DailySales ==
    \A res \in out :
        LET sales == SalesInWindow(db, res.userId, res.date) IN
        /\ res.sales.total = AmountSum(sales)
        /\ res.sales.upiTotal = AmountSum({ t \in sales : t.paymentMethod = "upi" })
        /\ res.sales.count = Cardinality(sales)
        /\ sales = {} =>
              res.sales.total = 0 /\ res.sales.upiTotal = 0 /\ res.sales.count = 0

\* The ledger holds, stamped in one day, two sales of user-1 (one by "upi"),
\* a "upi" row of another type and a sale of another user; the aggregate of
\* user-1 for that day counts the two sales only.
C14_Witness ==
    \E res \in out :
        /\ res.userId = UserId
        /\ Cardinality(db.transactions) = 4
        /\ \A t \in db.transactions :
              /\ StampLeq(Midnight(DayOf(res.date)), t.createdAt)
              /\ StampLeq(t.createdAt, LastMs(DayOf(res.date)))
        /\ res.sales = [total |-> 140, upiTotal |-> 100, count |-> 2]

\* The days in whose window getDailySales counts a row.
WindowsOf(t) == { day \in Days : InWindow(t, day * MsPerDay) }

\* C15 as stated: the day window of getDailySales is the closed interval
\* from 00:00:00.000 to 23:59:59.999 of the date: a row stamped at either
\* end is counted for that day and for no other, and every sale Transaction
\* is counted in the window of exactly one date.
C15_OneWindowPerSale ==
    \A t \in db.transactions :
        /\ \A day \in Days :
              (t.createdAt = Midnight(day) \/ t.createdAt = LastMs(day)) =>
                 WindowsOf(t) = {day}
        /\ t.type = "sale" => Cardinality(WindowsOf(t)) = 1

\* ======================================================================
\* Properties of the store under all its writing operations
\* ======================================================================

\* C16 as stated: the stock of an existing product changes only in the
\* commit of createOrder and in the stock update of PUT
\* /api/products/:id/stock; no other operation, the product edit PUT
\* /api/products/:id included, changes it.
C16_StockChangedOnlyBySaleOrAdjustment ==
    [][\A p \in DOMAIN db.products \cap DOMAIN db'.products :
         db'.products[p].stock # db.products[p].stock =>
            \/ \E r \in Requests : Committing(r)
            \/ adj.pc = "idle" /\ adj'.pc = "movement"
    ]_vars

\* C17: StockMovement rows and Transaction rows are append-only: no step of
\* any operation (an order, a manual adjustment, a product or order edit, a
\* ledger post, a delete of an order or of a product) removes or changes a
\* committed row of either table: every row is in the table after the step
\* with all its columns as before.
C17_AppendOnly ==
    [][/\ db.stockMovements \subseteq db'.stockMovements
       /\ db.transactions \subseteq db'.transactions
    ]_vars

\* The order of r1 is committed with a sale movement and its sale
\* Transaction, and the two operations after it (edits or deletes; no
\* adjustment, no ledger post) left both rows in place.
C17_Witness ==
    /\ adj.ops = MaxOps /\ adj.pc = "idle"
    /\ \E m \in db.stockMovements : m.orderId = "r1"
    /\ \A m \in db.stockMovements : m.reason = "sale"
    /\ Cardinality(db.transactions) = 1
    /\ SalesOf(db, "r1") # {}
    /\ \E o \in db.orders : o.id = "r1" /\ o.totalAmount = "1.00"

\* C18 as stated: every persisted StockMovement carries a signed quantity:
\* negative for type "out", positive for type "in", whether createOrder or
\* the manual adjustment wrote it.
C18_SignedQuantity ==
    \A m \in db.stockMovements :
        /\ m.type = "out" => m.quantity < 0
        /\ m.type = "in" => m.quantity > 0

\* ======================================================================
\* Properties of the loop of createOrder
\* ======================================================================

\* The stock a transaction has written for p once it has decremented it for
\* each of the items; the row is locked, its committed stock stands still.
StockAfter(r, items, p) == db.products[p].stock - QuantityOf(items, p)

\* C19: every write of an open createOrder transaction is the next one of
\* the sequence: the order row first; then, item by item in the order of the
\* items array, the OrderItem insert (only when every earlier item has its
\* three writes), the stock decrement of that item's product (once, by that
\* item's quantity), and the StockMovement insert of that item (only after
\* its stock decrement).
C19_WriteOrder ==
    [][\A r \in Requests :
         LET t == tx[r]
             u == tx'[r]
             n == Len(t.items)
         IN
         (u # t /\ u # NoTx) =>
            \/ /\ t = NoTx
               /\ u.order # {}
               /\ u = [NoTx EXCEPT !.order = u.order]
            \/ /\ t.order # {}
               /\ Len(t.movements) = n
               /\ \A i \in 1..n :
                     t.stock[t.items[i].productId] =
                        StockAfter(r, t.items, t.items[i].productId)
               /\ u = [t EXCEPT !.items = u.items]
               /\ Len(u.items) = n + 1
               /\ SubSeq(u.items, 1, n) = t.items
               /\ ItemContent(u.items[n + 1]) = req'[r].items[n + 1]
               /\ SubSeq(req'[r].items, 1, n) = req[r].items
            \/ /\ n >= 1
               /\ Len(t.movements) = n - 1
               /\ LET p == t.items[n].productId IN
                  /\ p \in DOMAIN t.stock =>
                        t.stock[p] = StockAfter(r, SubSeq(t.items, 1, n - 1), p)
                  /\ u = [t EXCEPT !.stock = u.stock]
                  /\ DOMAIN u.stock = DOMAIN t.stock \cup {p}
                  /\ \A q \in DOMAIN t.stock \ {p} : u.stock[q] = t.stock[q]
                  /\ u.stock[p] = StockAfter(r, t.items, p)
            \/ /\ n >= 1
               /\ Len(t.movements) = n - 1
               /\ LET p == t.items[n].productId IN
                  /\ p \in DOMAIN t.stock
                  /\ t.stock[p] = StockAfter(r, t.items, p)
                  /\ u = [t EXCEPT !.movements = u.movements]
                  /\ Len(u.movements) = n
                  /\ SubSeq(u.movements, 1, n - 1) = t.movements
                  /\ u.movements[n].productId = p
                  /\ u.movements[n].quantity = 0 - t.items[n].quantity
    ]_vars

\* The second item of an order has its OrderItem row and waits for its
\* stock decrement; the first has its three writes.
C19_Witness ==
    \E r \in Requests :
        /\ pc[r] = "updateStock"
        /\ Len(tx[r].items) = 2 /\ Len(tx[r].movements) = 1
        /\ tx[r].order # {}
        /\ tx[r].items[1].productId \in DOMAIN tx[r].stock
        /\ tx[r].items[2].productId \notin DOMAIN tx[r].stock

\* The content of a movement, its identity and its order's identity aside.
MovementContent(m) == [productId |-> m.productId, type |-> m.type,
                       quantity |-> m.quantity, reason |-> m.reason]

\* Two sets of rows hold the same contents the same number of times.
SameContents(rows, others2, Content(_)) ==
    \A c \in { Content(x) : x \in rows \cup others2 } :
        Cardinality({ x \in rows : Content(x) = c }) =
           Cardinality({ x \in others2 : Content(x) = c })

\* C20: createOrder on an items array and on any rearrangement of it, from
\* the same store, both succeed or both fail; when they succeed, they leave
\* every product with the same stock and OrderItem and StockMovement rows of
\* the same contents, each as many times; when they fail, both leave the
\* store as it was.
C20_ItemOrderIrrelevant ==
    \A a \in perm.first : \A b \in perm.second :
        /\ (a.err = "none") <=> (b.err = "none")
        /\ a.err = "none" =>
              /\ \A p \in Products : a.db.products[p].stock = b.db.products[p].stock
              /\ SameContents(ItemsOf(a.db, "r1"), ItemsOf(b.db, "r2"), ItemContent)
              /\ SameContents(MovementsOf(a.db, "r1"), MovementsOf(b.db, "r2"),
                              MovementContent)
              /\ Cardinality(ItemsOf(a.db, "r1")) = Len(perm.items)
        /\ a.err # "none" => a.db = db /\ b.db = db

\* Two different items of p1 were placed in both orders; both calls
\* succeeded and left p1 with the same negative stock.
C20_Witness ==
    \E a \in perm.first : \E b \in perm.second :
        /\ Len(perm.items) = MaxItems
        /\ perm.permuted # perm.items
        /\ a.err = "none" /\ b.err = "none"
        /\ perm.items[1].productId = "p1" /\ perm.items[2].productId = "p1"
        /\ a.db.products["p1"].stock < 0

\* ======================================================================
\* Properties of the monetary fields
\* ======================================================================

\* The sum of the totalPrice of the items of an array.
RECURSIVE TotalPriceSum(_)
TotalPriceSum(items) ==
    IF items = <<>> THEN 0 ELSE Head(items).totalPrice + TotalPriceSum(Tail(items))

C22_UserScoped ==
    [][/\ \A p \in Products :
             db.products[p].userId # UserId => db'.products[p] = db.products[p]
       /\ \A res \in out' : \A row \in res.products : row.product.userId = res.userId
    ]_vars

\* ======================================================================
\* Properties of the stock ledger
\* ======================================================================

\* C23: whatever createOrder calls have succeeded, failed or are under way,
\* the committed stock of every product is its initial stock plus the sum of
\* the quantities of its StockMovement rows, and its initial stock minus the
\* sum of the quantities of its OrderItem rows.
C23_StockIsInitialPlusMovements ==
    \A p \in Products :
        /\ db.products[p].stock =
              InitStock + QuantitySum({ m \in db.stockMovements : m.productId = p })
        /\ db.products[p].stock = InitStock - Sold(db, p)

\* Two calls interleaved on p1; one committed its two items of p1, the other
\* failed on an unknown product and was rolled back: p1 is oversold by the
\* committed items only.
C23_Witness ==
    \E r \in Requests : \E s \in Requests :
        /\ pc[r] = "done" /\ http[r] = 200
        /\ pc[s] = "done" /\ err[s] = "order_items_product_id_fk"
        /\ Cardinality({ m \in db.stockMovements : m.productId = "p1" }) = 2
        /\ Sold(db, "p1") > InitStock
        /\ db.products["p1"].stock < 0
        /\ raced

\* ======================================================================
\* Properties of the references between the tables
\* ======================================================================

\* Every reference of a row of d leads to a row of d.
ReferencesHold(d) ==
    /\ \A i \in d.orderItems :
          /\ \E o \in d.orders : o.id = i.orderId
          /\ i.productId \in DOMAIN d.products
    /\ \A m \in d.stockMovements :
          /\ m.orderId # NULL => \E o \in d.orders : o.id = m.orderId
          /\ m.productId \in DOMAIN d.products
    /\ \A t \in d.transactions :
          t.orderId # NULL => \E o \in d.orders : o.id = t.orderId

\* C24: after every step every OrderItem, StockMovement and Transaction
\* with an orderId refers to an existing Order and every OrderItem and
\* StockMovement to an existing Product; a step removes an order only if no
\* item, movement or Transaction refers to it and a product only if no item
\* or movement refers to it, and no step removes an OrderItem.
C24_ReferentialIntegrity ==
    [][/\ ReferencesHold(db')
       /\ \A o \in db.orders :
             (\A n \in db'.orders : n.id # o.id) =>
                /\ ItemsOf(db, o.id) = {} /\ MovementsOf(db, o.id) = {}
                /\ \A t \in db.transactions : t.orderId # o.id
       /\ \A p \in DOMAIN db.products \ DOMAIN db'.products :
             /\ \A i \in db.orderItems : i.productId # p
             /\ \A m \in db.stockMovements : m.productId # p
       /\ db.orderItems \subseteq db'.orderItems
    ]_vars

\* The order of r1 is committed with an item and a movement of p1 and its
\* sale Transaction; p2, which no row refers to, has been deleted, and after
\* MaxOps operations the order, p1 and the rows referring to them are in
\* place.
C24_Witness ==
    /\ adj.ops = MaxOps /\ adj.pc = "idle"
    /\ pc["r1"] = "done" /\ http["r1"] = 200
    /\ DOMAIN db.products = {"p1"}
    /\ \E o \in db.orders : o.id = "r1"
    /\ \E i \in db.orderItems : i.orderId = "r1" /\ i.productId = "p1"
    /\ \E m \in db.stockMovements : m.orderId = "r1" /\ m.productId = "p1"
    /\ SalesOf(db, "r1") # {}

\* ======================================================================
\* Properties of the manual stock adjustment
\* ======================================================================

\* C25: the first step of PUT /api/products/:id/stock with quantity q
\* commits stock + q for the product and nothing else, before any answer; the
\* second step either answers 200 and appends exactly one StockMovement of
\* that product with reason "adjustment", type "in" for q > 0 and "out"
\* otherwise and quantity |q|, or answers 500 and leaves the tables as they
\* were, the stock change of the first step included.
C25_AdjustmentNotAtomic ==
    [][/\ (adj.pc = "idle" /\ adj'.pc = "movement") =>
             /\ db' = [db EXCEPT !.products[adj'.id].stock = @ + adj'.quantity]
             /\ adj'.http = 0
       /\ (adj.pc = "movement" /\ adj'.pc = "idle") =>
             \/ /\ adj'.http = 200
                /\ db'.products = db.products
                /\ \E m \in db'.stockMovements \ db.stockMovements :
                      /\ db' = [db EXCEPT !.stockMovements = @ \cup {m}]
                      /\ m.productId = adj.id /\ m.userId = UserId
                      /\ m.reason = "adjustment" /\ m.orderId = NULL
                      /\ adj.quantity > 0 => m.type = "in" /\ m.quantity = adj.quantity
                      /\ adj.quantity <= 0 =>
                            m.type = "out" /\ m.quantity = 0 - adj.quantity
             \/ /\ adj'.http = 500
                /\ db' = db
    ]_vars

\* An adjustment of p1 by -1 was answered 500: p1 carries the changed stock
\* and no movement of reason "adjustment" exists.
C25_Witness ==
    /\ adj.pc = "idle" /\ adj.http = 500 /\ adj.ops = 1
    /\ adj.id = "p1" /\ adj.quantity = -1
    /\ db.orders = {}
    /\ db.products["p1"].stock = InitStock - 1
    /\ db.stockMovements = {}

\* ======================================================================
\* Properties of the order edit
\* ======================================================================

\* C26: a sale Transaction is written only by the ledger step of the
\* request that created the order, and an order never has more than one;
\* every PUT /api/orders/:id, one that sets paymentStatus to "paid" or status
\* to "cancelled" included, leaves Transactions, StockMovements, OrderItems
\* and products as they were, and changes of the orders only the columns of
\* the body in the row of that id.
C26_UpdateOrderFrame ==
    [][/\ db'.transactions # db.transactions =>
             pc["r1"] = "ledger" /\ adj'.ops = adj.ops
       /\ Cardinality(SalesOf(db', "r1")) <= 1
       /\ adj'.ops # adj.ops =>
             /\ db'.transactions = db.transactions
             /\ db'.stockMovements = db.stockMovements
             /\ db'.orderItems = db.orderItems
             /\ db'.products = db.products
             /\ { o.id : o \in db'.orders } = { o.id : o \in db.orders }
             /\ Cardinality(db'.orders) = Cardinality(db.orders)
             /\ \E id \in Requests : \E orderData \in OrderEdits :
                   \A o \in db.orders : \E n \in db'.orders :
                      /\ n.id = o.id
                      /\ o.id # id => n = o
                      /\ o.id = id =>
                            /\ \A c \in DOMAIN orderData : n[c] = orderData[c]
                            /\ \A c \in DOMAIN o \ DOMAIN orderData : n[c] = o[c]
    ]_vars

\* An order created pending, with an item, was later marked paid by an
\* edit and cancelled by another: it has no sale Transaction, and its item,
\* its movement and the stock it took are as the creation left them.
C26_Witness ==
    /\ pc["r1"] = "done" /\ http["r1"] = 200 /\ adj.ops = 2
    /\ \E o \in db.orders :
          o.id = "r1" /\ o.paymentStatus = "paid" /\ o.status = "cancelled"
    /\ db.transactions = {}
    /\ Cardinality(ItemsOf(db, "r1")) = 1 /\ Cardinality(MovementsOf(db, "r1")) = 1
    /\ \E p \in Products : db.products[p].stock < InitStock

\* ======================================================================
\* Properties of getDashboardStats
\* ======================================================================

\* The orders of a user created in the calendar day of the clock.
OrdersToday(d, userId) ==
    { o \in d.orders : o.userId = userId /\ DayOf(o.createdAt.ms) = DayOf(now.ms) }

\* The products of a user whose stock is at most their minStock.
LowProducts(d, userId) ==
    { p \in DOMAIN d.products :
        /\ d.products[p].userId = userId
        /\ "minStock" \in DOMAIN d.products[p]
        /\ d.products[p].stock <= d.products[p].minStock }

\* The first read of getDashboardStats returns the aggregate of the sale
\* Transactions of the user in today's window, and the object returned by
\* the second step carries it together with the number of low-stock products
\* of the user at the second read.
StatsFromTheTwoReads ==
    /\ (dash.pc = "idle" /\ dash'.pc = "lowStock") =>
          \A ds \in dash'.dailySales :
             LET sales == SalesInWindow(db, dash'.userId, now.ms) IN
             /\ ds.total = AmountSum(sales)
             /\ ds.upiTotal = AmountSum({ t \in sales : t.paymentMethod = "upi" })
             /\ ds.count = Cardinality(sales)
    /\ (dash.pc = "lowStock" /\ dash'.pc = "idle") =>
          \A ds \in dash.dailySales : \A stats \in dash'.stats :
             /\ stats.todaySales = ds.total
             /\ stats.ordersCount = ds.count
             /\ stats.upiCollection = ds.upiTotal
             /\ stats.lowStockCount = Cardinality(LowProducts(db, dash.userId))

\* C27 as stated: the dashboard is derived from the two reads, and
\* ordersCount, the number of today's sale Transactions of the user, equals
\* the number of orders created today only when every order of the day is
\* paid and has its ledger entry and no sale Transaction of the day was
\* posted separately.
C27_OrdersCountOnlyWhenAllPaid ==
    [][/\ StatsFromTheTwoReads
       /\ (dash.pc = "idle" /\ dash'.pc = "lowStock") =>
             \A ds \in dash'.dailySales :
                ds.count = Cardinality(OrdersToday(db, dash'.userId)) =>
                   /\ \A o \in OrdersToday(db, dash'.userId) :
                         /\ o.paymentStatus = "paid"
                         /\ \E t \in db.transactions : t.orderId = o.id
                   /\ \A t \in SalesInWindow(db, dash'.userId, now.ms) :
                         t.orderId # NULL
    ]_vars

\* C27 as amended: the dashboard is derived from the two reads, and
\* ordersCount is the number of sale Transactions of the user in today's
\* window; it equals the number of the user's orders created today whenever
\* each of those orders has exactly one sale Transaction in the window and
\* every sale Transaction of the user in the window belongs to one of them.
C27_DashboardStats ==
    [][/\ StatsFromTheTwoReads
       /\ (dash.pc = "idle" /\ dash'.pc = "lowStock") =>
             \A ds \in dash'.dailySales :
                LET sales == SalesInWindow(db, dash'.userId, now.ms)
                    today == OrdersToday(db, dash'.userId)
                IN  (/\ \A o \in today :
                           Cardinality({ t \in sales : t.orderId = o.id }) = 1
                     /\ \A t \in sales : \E o \in today : t.orderId = o.id)
                    => ds.count = Cardinality(today)
    ]_vars

\* The dashboard of user-1 was computed on a day with one paid order and its
\* sale Transaction, a posted sale by cash and a sale of the other user: it
\* counts two sales for one order, and one low-stock product, p1, whose
\* stock a manual adjustment lowered to its minimum.
C27_Witness ==
    \E stats \in dash.stats :
        /\ dash.userId = UserId
        /\ Cardinality(OrdersToday(db, UserId)) = 1
        /\ \A o \in db.orders : \E t \in db.transactions : t.orderId = o.id
        /\ \E t \in db.transactions : t.userId = OtherUser
        /\ stats.ordersCount = 2 /\ stats.todaySales = 140 /\ stats.upiCollection = 100
        /\ stats.lowStockCount = 1
        /\ \E m \in db.stockMovements : m.reason = "adjustment" /\ m.productId = "p1"
        /\ db.products["p1"].stock = db.products["p1"].minStock

\* ======================================================================
\* Properties of the offline queue
\* ======================================================================

\* C28: after any sequence of saveOfflineTransaction, markTransactionSynced
\* and clearOfflineTransactions, getOfflineTransactions returns exactly the
\* saved transactions that have not been marked synced, and
\* markTransactionSynced of an unknown id resolves and changes nothing.
C28_ReturnsTheUnsynced ==
    [][/\ (idb' # idb /\ idb'.last.call = "get") =>
             /\ idb'.last.settled = "resolved"
             /\ idb'.last.value = { t \in idb.store : ~t.synced }
       /\ (idb' # idb /\ idb'.last.call = "mark") =>
             /\ idb'.last.settled = "resolved"
             /\ (\A t \in idb.store : t.id \notin idb'.last.value)
                   => idb'.store = idb.store
    ]_vars

\* C29: clearOfflineTransactions deletes exactly the offline transactions
\* whose synced flag is true and leaves every unsynced transaction in the
\* store unchanged.
C29_ClearDeletesTheSynced ==
    [][(idb' # idb /\ idb'.last.call = "clear") =>
          idb'.store = { t \in idb.store : ~t.synced }
    ]_vars

\* ======================================================================
\* Properties of the cart
\* ======================================================================

\* The stock of a product in the list the page fetched, in thousandths.
FetchedStock(productId) ==
    LET i == CHOOSE i \in 1..Len(sale.products) : sale.products[i].id = productId
    IN  sale.products[i].stock

\* C30: after any sequence of addToCart and updateCartQuantity the cart
\* holds at most one entry per product, every entry has quantity >= 1 and
\* totalPrice = quantity x unitPrice, and no quantity exceeds the stock of
\* its product as the page fetched it; an order is submitted only when the
\* cart is non-empty, with one item per cart entry in cart order.
C30_CartInvariants ==
    [][/\ \A i \in 1..Len(sale'.cart) :
             /\ \A j \in 1..Len(sale'.cart) :
                   sale'.cart[i].id = sale'.cart[j].id => i = j
             /\ sale'.cart[i].quantity >= 1
             /\ sale'.cart[i].totalPrice = sale'.cart[i].quantity * sale'.cart[i].unitPrice
             /\ sale'.cart[i].quantity * 1000 <= FetchedStock(sale'.cart[i].id)
       /\ sale'.submitted # sale.submitted =>
             /\ Len(sale.cart) >= 1
             /\ Len(sale'.submitted) = Len(sale.cart)
             /\ \A i \in 1..Len(sale.cart) :
                   sale'.submitted[i].productId = sale.cart[i].id
    ]_vars

\* The cart holds both products, the second of the list first, one of them
\* more than once and as often as its fetched stock allows, and it was
\* submitted as it is: two items in cart order.
C30_Witness ==
    /\ Len(sale.cart) = 2
    /\ sale.cart[1].id = sale.products[2].id
    /\ \E i \in 1..2 :
          /\ sale.cart[i].quantity >= 2
          /\ (sale.cart[i].quantity + 1) * 1000 > FetchedStock(sale.cart[i].id)
          /\ sale.cart[i].totalPrice = sale.cart[i].quantity * CartPrice[sale.cart[i].id]
    /\ Len(sale.submitted) = 2
    /\ \A i \in 1..2 : sale.submitted[i].productId = sale.cart[i].id

====
